---- MODULE Spec2Model ----
(***************************************************************************)
(* A model of trio.testing._raises_group: RaisesGroup.matches with its     *)
(* greedy pairing pass and diagnostic passes, Matcher.matches, and the     *)
(* RaisesGroup context-manager protocol (__enter__ / __exit__) with its    *)
(* deferred-fill ExceptionInfo handle.                                     *)
(*                                                                         *)
(* Conventions.  Python's None for an optional value is the empty sequence *)
(* <<>>: a failure reason is a non-empty sequence of text fragments        *)
(* (tokens, concatenated in order they make the Python string), an         *)
(* optional regex is <<>> or <<pattern>>.  Text that regexes are searched  *)
(* in (messages, notes, patterns) is a sequence of characters.  Python     *)
(* indexes from 0, the model from 1.                                       *)
(***************************************************************************)
EXTENDS Integers, Sequences, FiniteSets, TLC

VARIABLES
    rg,           \* the RaisesGroup object (its constructor-set fields)
    fail_reason,  \* rg.fail_reason
    excinfo,      \* rg.excinfo: index into handles, 0 before the first __enter__
    handles,      \* every ExceptionInfo made by __enter__: <<>> unfilled, else <<exc_info>>
    blocks,       \* open `with rg` blocks, innermost last: the handle each __enter__ returned
    call          \* the last operation: its input and how it ended

vars == <<rg, fail_reason, excinfo, handles, blocks, call>>

----------------------------------------------------------------------------
(* Bounds of the model. *)

\* longest expected_exceptions tuple of a top-level RaisesGroup
MaxExpected == 2
\* most leaf exceptions in one raised exception tree
MaxLeaves == 2
\* deepest nesting of exception groups inside the raised group
MaxDepth == 1
\* most __enter__ calls on the one RaisesGroup object
MaxBlocks == 2
\* most rows (and columns) of a result table handed to possible_match
MaxRows == 3
\* expected exceptions, and raised exceptions, of the calls of SpecReport
MaxReport == 3

----------------------------------------------------------------------------
(* Text. *)

hello == <<"h", "e", "l", "l", "o">>
goodbye == <<"g", "o", "o", "d", "b", "y", "e">>
empty == <<>>
newline == <<"\n">>

None == <<>>

RECURSIVE JoinLines(_)
\* "\n".join(lines) for a non-empty list of lines
JoinLines(lines) ==
    IF Len(lines) = 1 THEN lines[1]
    ELSE lines[1] \o newline \o JoinLines(Tail(lines))

\* re.search(pattern, text) for a pattern without metacharacters: does the
\* pattern occur anywhere in the text
re_search(pattern, text) ==
    \E i \in 1..(Len(text) + 1) :
        /\ i + Len(pattern) - 1 <= Len(text)
        /\ \A k \in 1..Len(pattern) : text[i + k - 1] = pattern[k]

----------------------------------------------------------------------------
(* Exception classes. *)

TypeNames ==
    {"BaseException", "Exception", "ValueError", "TypeError",
     "BaseExceptionGroup", "ExceptionGroup", "AssertionError"}

\* the direct base classes of each class (ExceptionGroup has two)
Bases(t) ==
    CASE t = "BaseException" -> {}
      [] t = "Exception" -> {"BaseException"}
      [] t = "BaseExceptionGroup" -> {"BaseException"}
      [] t = "ExceptionGroup" -> {"BaseExceptionGroup", "Exception"}
      [] t = "int" -> {}
      [] OTHER -> {"Exception"}

RECURSIVE issubclass(_, _)
issubclass(t, u) ==
    \/ t = u
    \/ \E b \in Bases(t) : issubclass(b, u)

isinstance(exception, t) == issubclass(exception.type, t)

\* isinstance(exc, BaseExceptionGroup)
IsGroup(exception) == isinstance(exception, "BaseExceptionGroup")

----------------------------------------------------------------------------
(* Exceptions: a leaf carries a class, a message and notes; a group also   *)
(* carries its sub-exceptions (never empty: BaseExceptionGroup refuses an  *)
(* empty sequence).                                                        *)

Exc(type, message, notes) ==
    [type |-> type, message |-> message, notes |-> notes, exceptions |-> <<>>]

ExceptionGroup(message, exceptions) ==
    [type |-> "ExceptionGroup", message |-> message, notes |-> <<>>,
     exceptions |-> exceptions]

\* the leaf exceptions raised in the model
LeafExcs ==
    { Exc("ValueError", hello, <<>>),
      Exc("ValueError", goodbye, <<>>),
      Exc("TypeError", goodbye, <<hello>>) }

GroupMessages == {empty, hello}

RECURSIVE ElemsExact(_, _), SeqsExact(_, _)
\* one exception holding exactly k leaves, groups nested at most depth deep
ElemsExact(depth, k) ==
    (IF k = 1 THEN LeafExcs ELSE {})
    \cup (IF depth > 0
          THEN { ExceptionGroup(empty, s) : s \in SeqsExact(depth - 1, k) }
          ELSE {})

\* the non-empty sequences of exceptions holding exactly k leaves in all
SeqsExact(depth, k) ==
    UNION { { <<e>> \o s : e \in ElemsExact(depth, j),
                           s \in (IF j = k THEN {<<>>} ELSE SeqsExact(depth, k - j)) }
            : j \in 1..k }

\* the exception groups that reach matches or __exit__
GroupExcs ==
    UNION { { ExceptionGroup(m, s) : m \in GroupMessages, s \in SeqsExact(MaxDepth, k) }
            : k \in 1..MaxLeaves }

\* repr(e) / repr(type) / repr(text), as one text fragment
repr(v) == ToString(v)

\* _exception_type_name
_exception_type_name(t) == repr(t)

\* _stringify_exception: the message and the notes, joined by newlines
_stringify_exception(exc) == JoinLines(<<exc.message>> \o exc.notes)

----------------------------------------------------------------------------
(* The callables passed as `check`. *)

\* Matcher(check=lambda e: type(e) is ValueError)
\* RaisesGroup(..., check=lambda g: len(g.exceptions) == 1)
CallCheck(check, exception) ==
    CASE check = "type_is_ValueError" -> exception.type = "ValueError"
      [] check = "one_exception" -> Len(exception.exceptions) = 1
      [] OTHER -> FALSE

\* repr_callable
repr_callable(fun) == "<function " \o fun \o ">"

----------------------------------------------------------------------------
(* AbstractMatcher and Matcher.  Each _check_* returns None when the check *)
(* passes (self.fail_reason is left alone) and else the reason it assigns  *)
(* to self.fail_reason.                                                    *)

_check_raw_type(expected_type, exception) ==
    IF expected_type = "None" THEN None
    ELSE IF ~isinstance(exception, expected_type)
    THEN IF IsGroup(exception)
         THEN <<"Unexpected nested ", _exception_type_name(exception.type),
                ", expected bare ", _exception_type_name(expected_type)>>
         ELSE <<_exception_type_name(exception.type), " is not of type ",
                _exception_type_name(expected_type)>>
    ELSE None

\* _check_check without lines 212-217: the check is not asked
_check_check_unasked(check, exception, suppress_repr) == None

_check_check(check, exception, suppress_repr) ==
    IF check = "None" THEN None
    ELSE IF CallCheck(check, exception) THEN None
    ELSE <<"check", IF suppress_repr THEN "" ELSE " " \o repr_callable(check),
           " did not return True">>

_check_match(match_expr, e) ==
    IF match_expr = None \/ re_search(match_expr[1], _stringify_exception(e))
    THEN None
    ELSE <<"Regex pattern ", repr(match_expr[1]), " did not match ",
           repr(_stringify_exception(e))>>
         \o (IF IsGroup(e) THEN <<" of ", _exception_type_name(e.type)>> ELSE <<>>)
         \o (IF match_expr[1] = _stringify_exception(e)
             THEN <<"\n", "Did you mean to re.escape() the regex?">>
             ELSE <<>>)

Matcher(exception_type, match, check) ==
    [kind |-> "Matcher", exception_type |-> exception_type, match |-> match,
     check |-> check]

\* Matcher.__repr__
Matcher_repr(m) == repr(m)

\* Matcher.matches running the check before the type and the regex
Matcher_matches_check_first(self, exception) ==
    LET type_reason == _check_raw_type(self.exception_type, exception)
        match_reason == _check_match(self.match, exception)
        check_reason == _check_check(self.check, exception, TRUE)
        invoked == self.check # "None"
    IN  IF check_reason # None
        THEN [ret |-> FALSE, fail_reason |-> check_reason, invoked |-> invoked]
        ELSE IF type_reason # None
        THEN [ret |-> FALSE, fail_reason |-> type_reason, invoked |-> invoked]
        ELSE IF match_reason # None
        THEN [ret |-> FALSE, fail_reason |-> match_reason, invoked |-> invoked]
        ELSE [ret |-> TRUE, fail_reason |-> None, invoked |-> invoked]

\* Matcher.matches: the type, then the regex, then the check; the first
\* failure decides and sets fail_reason
Matcher_matches(self, exception) ==
    LET type_reason == _check_raw_type(self.exception_type, exception)
        match_reason == _check_match(self.match, exception)
        check_reason == _check_check(self.check, exception, TRUE)
        \* check(exception) is called at line 212, when _check_check is reached
        invoked == self.check # "None"
    IN  IF type_reason # None
        THEN [ret |-> FALSE, fail_reason |-> type_reason, invoked |-> FALSE]
        ELSE IF match_reason # None
        THEN [ret |-> FALSE, fail_reason |-> match_reason, invoked |-> FALSE]
        ELSE IF check_reason # None
        THEN [ret |-> FALSE, fail_reason |-> check_reason, invoked |-> invoked]
        ELSE [ret |-> TRUE, fail_reason |-> None, invoked |-> invoked]

\* values passed as exception_type that are not classes
NotClasses == {"5"}

\* Matcher.__init__ without the test of lines 283-284
Matcher_init_unchecked(exception_type, match, check) ==
    IF exception_type # "None" /\ exception_type \in NotClasses
    THEN [raised |-> "TypeError", self |-> None]
    ELSE IF exception_type # "None" /\ ~issubclass(exception_type, "BaseException")
    THEN [raised |-> "ValueError", self |-> None]
    ELSE [raised |-> "None", self |-> Matcher(exception_type, match, check)]

\* Matcher.__init__: what it raises, and the object it leaves
Matcher_init(exception_type, match, check) ==
    IF exception_type = "None" /\ match = None /\ check = "None"
    \* You must specify at least one parameter to match on.
    THEN [raised |-> "ValueError", self |-> None]
    \* issubclass() arg 1 must be a class
    ELSE IF exception_type # "None" /\ exception_type \in NotClasses
    THEN [raised |-> "TypeError", self |-> None]
    \* exception_type must be a subclass of BaseException
    ELSE IF exception_type # "None" /\ ~issubclass(exception_type, "BaseException")
    THEN [raised |-> "ValueError", self |-> None]
    ELSE [raised |-> "None", self |-> Matcher(exception_type, match, check)]

----------------------------------------------------------------------------
(* RaisesGroup: construction. *)

\* an exception class given as an expected exception
TypeSpec(t) == [kind |-> "type", name |-> t]

\* RaisesGroup.__init__ without the test of lines 559-565
RaisesGroup_init_nested_flatten(exceptions, allow_unwrapped, flatten_subgroups, match, check) ==
    LET Valid(exc) ==
            \/ exc.kind = "RaisesGroup"
            \/ exc.kind = "Matcher"
            \/ exc.kind = "type" /\ issubclass(exc.name, "BaseException")
        self ==
            [kind |-> "RaisesGroup",
             expected_exceptions |->
                 [i \in 1..Len(exceptions) |->
                     IF exceptions[i].kind = "RaisesGroup"
                     THEN [exceptions[i] EXCEPT !._nested = TRUE]
                     ELSE exceptions[i]],
             allow_unwrapped |-> allow_unwrapped,
             flatten_subgroups |-> flatten_subgroups,
             match_expr |-> match,
             check |-> check,
             _nested |-> FALSE]
    IN  IF \/ allow_unwrapped /\ Len(exceptions) > 1
           \/ allow_unwrapped /\ exceptions[1].kind = "RaisesGroup"
           \/ allow_unwrapped /\ (match # None \/ check # "None")
           \/ \E i \in 1..Len(exceptions) : ~Valid(exceptions[i])
        THEN [raised |-> "ValueError", self |-> None]
        ELSE [raised |-> "None", self |-> self]

\* RaisesGroup.__init__: the object it builds, or the ValueError it raises.
\* A RaisesGroup given as an expected exception gets _nested = True.
RaisesGroup_init(exceptions, allow_unwrapped, flatten_subgroups, match, check) ==
    LET Valid(exc) ==
            \/ exc.kind = "RaisesGroup" /\ ~flatten_subgroups
            \/ exc.kind = "Matcher"
            \/ exc.kind = "type" /\ issubclass(exc.name, "BaseException")
        self ==
            [kind |-> "RaisesGroup",
             expected_exceptions |->
                 [i \in 1..Len(exceptions) |->
                     IF exceptions[i].kind = "RaisesGroup"
                     THEN [exceptions[i] EXCEPT !._nested = TRUE]
                     ELSE exceptions[i]],
             allow_unwrapped |-> allow_unwrapped,
             flatten_subgroups |-> flatten_subgroups,
             match_expr |-> match,
             check |-> check,
             _nested |-> FALSE]
    IN  IF \/ allow_unwrapped /\ Len(exceptions) > 1
           \/ allow_unwrapped /\ exceptions[1].kind = "RaisesGroup"
           \/ allow_unwrapped /\ (match # None \/ check # "None")
           \/ \E i \in 1..Len(exceptions) : ~Valid(exceptions[i])
        THEN [raised |-> "ValueError", self |-> None]
        ELSE [raised |-> "None", self |-> self]

\* RaisesGroup._repr_expected / RaisesGroup.__repr__
_repr_expected(e) ==
    IF e.kind = "type" THEN _exception_type_name(e.name) ELSE repr(e)

\* _unroll_exceptions appending every exception as it is (line 620 lost)
_unroll_exceptions_appending(exceptions) == exceptions

RECURSIVE _unroll_exceptions_prepending(_)
\* _unroll_exceptions putting each exception before the ones already there
_unroll_exceptions_prepending(exceptions) ==
    IF exceptions = <<>> THEN <<>>
    ELSE _unroll_exceptions_prepending(Tail(exceptions))
         \o (IF IsGroup(Head(exceptions))
             THEN _unroll_exceptions_prepending(Head(exceptions).exceptions)
             ELSE <<Head(exceptions)>>)

RECURSIVE _unroll_exceptions(_)
\* RaisesGroup._unroll_exceptions: every group replaced by its own unrolled
\* sub-exceptions, depth first, order kept
_unroll_exceptions(exceptions) ==
    IF exceptions = <<>> THEN <<>>
    ELSE (IF IsGroup(Head(exceptions))
          THEN _unroll_exceptions(Head(exceptions).exceptions)
          ELSE <<Head(exceptions)>>)
         \o _unroll_exceptions(Tail(exceptions))

----------------------------------------------------------------------------
(* Text helpers over reasons. *)

RECURSIVE IndentFrom(_, _, _)
IndentFrom(text, prefix, at_line_start) ==
    IF text = <<>> THEN <<>>
    ELSE IF Head(text) = "\n"
    THEN <<"\n">> \o IndentFrom(Tail(text), prefix, TRUE)
    ELSE (IF at_line_start THEN <<prefix>> ELSE <<>>)
         \o <<Head(text)>> \o IndentFrom(Tail(text), prefix, FALSE)

\* textwrap.indent: the prefix before every line that is not empty
indent(text, prefix) == IndentFrom(text, prefix, TRUE)

RECURSIVE JoinWith(_, _)
\* sep.join(parts)
JoinWith(parts, sep) ==
    IF parts = <<>> THEN <<>>
    ELSE IF Len(parts) = 1 THEN <<parts[1]>>
    ELSE <<parts[1], sep>> \o JoinWith(Tail(parts), sep)

----------------------------------------------------------------------------
(* ResultHolder: results[actual][expected] is NotChecked, or the result of *)
(* _check_expected (None: a match, else the reason).                       *)

NotChecked == [checked |-> FALSE, res |-> None]

ResultHolder(expected_exceptions, actual_exceptions) ==
    [a \in 1..Len(actual_exceptions) |->
        [e \in 1..Len(expected_exceptions) |-> NotChecked]]

\* set_result that records nothing
set_result_dropped(results, expected, actual, result) == results

set_result(results, expected, actual, result) ==
    [results EXCEPT ![actual][expected] = [checked |-> TRUE, res |-> result]]

\* has_result that never finds a result
has_result_never(results, expected, actual) == FALSE

has_result(results, expected, actual) == results[actual][expected].checked

\* get_result reading the row of the first actual exception
get_result_first_actual(results, expected, actual) == results[1][expected]

\* get_result: the cell (its caller raises AssertionError when NotChecked)
get_result(results, expected, actual) == results[actual][expected]

\* a cell that holds None: a successful match
IsMatch(cell) == cell.checked /\ cell.res = None

RECURSIVE ScanCells(_, _, _)
\* the loops of no_match_for_expected / no_match_for_actual over the cells
\* in the order they are read: FALSE at the first None, AssertionError at
\* the first NotChecked, TRUE when the cells run out
ScanCells(results, cells, k) ==
    IF k > Len(cells) THEN [ret |-> TRUE, raised |-> "None"]
    ELSE LET cell == results[cells[k][1]][cells[k][2]]
         IN  IF ~cell.checked THEN [ret |-> FALSE, raised |-> "AssertionError"]
             ELSE IF cell.res = None THEN [ret |-> FALSE, raised |-> "None"]
             ELSE ScanCells(results, cells, k + 1)

RECURSIVE Pairs(_, _)
\* <<x, y>> for x in xs for y in ys, in loop order
Pairs(xs, ys) ==
    IF xs = <<>> THEN <<>>
    ELSE [k \in 1..Len(ys) |-> <<Head(xs), ys[k]>>] \o Pairs(Tail(xs), ys)

Range1(n) == [k \in 1..n |-> k]

\* ResultHolder.no_match_for_expected(expected): cells read as <<actual, expected>>
no_match_for_expected(results, expected) ==
    ScanCells(results,
              [k \in 1..(Len(expected) * Len(results)) |->
                  <<Pairs(expected, Range1(Len(results)))[k][2],
                    Pairs(expected, Range1(Len(results)))[k][1]>>],
              1)

\* ResultHolder.no_match_for_actual(actual)
no_match_for_actual(results, actual) ==
    ScanCells(results,
              IF Len(results) = 0 THEN <<>>
              ELSE Pairs(actual, Range1(Len(results[1]))),
              1)

RECURSIVE possible_match_first_only(_, _)
\* possible_match that keeps to the first free None of each row: line 998
\* without trying the next column when the recursion returns False
possible_match_first_only(results, used) ==
    LET curr_row == Cardinality(used) + 1
        free == IF curr_row > Len(results) THEN {}
                ELSE {i \in 1..Len(results[curr_row]) :
                        IsMatch(results[curr_row][i]) /\ i \notin used}
    IN  IF curr_row = Len(results) + 1 THEN TRUE
        ELSE /\ free # {}
             /\ possible_match_first_only(
                    results, used \cup {CHOOSE i \in free : \A j \in free : i <= j})

RECURSIVE possible_match(_, _)
\* possible_match: is there an assignment of every row (actual) to its own
\* column (expected) whose cell is None
possible_match(results, used) ==
    LET curr_row == Cardinality(used) + 1
    IN  IF curr_row = Len(results) + 1 THEN TRUE
        ELSE \E i \in 1..Len(results[curr_row]) :
                /\ IsMatch(results[curr_row][i])
                /\ i \notin used
                /\ possible_match(results, used \cup {i})

----------------------------------------------------------------------------
(* RaisesGroup.matches.  A call ends by returning ret, or by raising       *)
(* (raised is then the exception class, and ret is FALSE); fail_reason is  *)
(* self.fail_reason when the call ends.                                    *)

RECURSIVE RaisesGroup_matches(_, _), _check_expected(_, _)
RECURSIVE ScanRemaining(_, _, _, _, _, _, _), GreedyPass(_, _, _, _)
RECURSIVE ExhaustiveFill(_, _, _, _, _)

\* RaisesGroup._check_expected: None when the exception satisfies the
\* expected type / Matcher / RaisesGroup, else the reason
_check_expected(expected_type, exception) ==
    IF expected_type.kind = "type"
    THEN [res |-> _check_raw_type(expected_type.name, exception), raised |-> "None"]
    ELSE LET \* lines 747-753, m being what expected_type.matches(exception) did
             Matched(m) ==
                 IF m.raised # "None" THEN [res |-> None, raised |-> m.raised]
                 ELSE IF m.ret THEN [res |-> None, raised |-> "None"]
                 ELSE IF m.fail_reason = None
                 THEN [res |-> None, raised |-> "AssertionError"]
                 ELSE IF Head(m.fail_reason) = "\n"
                 THEN [res |-> <<"\n", repr(expected_type), ": ">>
                               \o indent(m.fail_reason, "  "),
                       raised |-> "None"]
                 ELSE [res |-> <<repr(expected_type), ": ">> \o m.fail_reason,
                       raised |-> "None"]
         IN  Matched(IF expected_type.kind = "Matcher"
                     THEN [ret |-> Matcher_matches(expected_type, exception).ret,
                           raised |-> "None",
                           fail_reason |->
                               Matcher_matches(expected_type, exception).fail_reason]
                     ELSE RaisesGroup_matches(expected_type, exception))

\* the inner loop trying only the first of remaining_actual
ScanRemaining_first_only(expected, i_exp, actual_exceptions, remaining_actual, k, results, res) ==
    IF k > Len(remaining_actual)
    THEN [found |-> 0, results |-> results, res |-> res, raised |-> "None"]
    ELSE LET Checked(i_rem, c) ==
                 [found |-> IF c.raised = "None" /\ c.res = None THEN i_rem ELSE 0,
                  results |-> IF c.raised = "None"
                              THEN set_result(results, i_exp, i_rem, c.res) ELSE results,
                  res |-> IF c.raised = "None" THEN c.res ELSE res,
                  raised |-> c.raised]
         IN  Checked(remaining_actual[k],
                     _check_expected(expected, actual_exceptions[remaining_actual[k]]))

\* the inner loop of the pairing pass (lines 794-802) from position k of
\* remaining_actual on: found is the actual exception taken, 0 for none
ScanRemaining(expected, i_exp, actual_exceptions, remaining_actual, k, results, res) ==
    IF k > Len(remaining_actual)
    THEN [found |-> 0, results |-> results, res |-> res, raised |-> "None"]
    ELSE LET \* lines 795-802, c being what _check_expected did
             Checked(i_rem, c) ==
                 IF c.raised # "None"
                 THEN [found |-> 0, results |-> results, res |-> res, raised |-> c.raised]
                 ELSE IF c.res = None
                 THEN [found |-> i_rem,
                       results |-> set_result(results, i_exp, i_rem, c.res),
                       res |-> c.res, raised |-> "None"]
                 ELSE ScanRemaining(expected, i_exp, actual_exceptions, remaining_actual,
                                    k + 1, set_result(results, i_exp, i_rem, c.res), c.res)
         IN  Checked(remaining_actual[k],
                     _check_expected(expected, actual_exceptions[remaining_actual[k]]))

\* line 798 removing nothing
Remove_nothing(seq, x) == seq

\* remaining_actual.remove(i_rem)
Remove(seq, x) == SelectSeq(seq, LAMBDA y : y # x)

\* the pairing pass (lines 793-802) from expected exception i_exp on.
\* st: remaining_actual, failed_expected, matches (0: no entry), results,
\* res (the last result computed), raised
GreedyPass(expected_exceptions, actual_exceptions, i_exp, st) ==
    IF i_exp > Len(expected_exceptions) \/ st.raised # "None" THEN st
    ELSE LET \* lines 797-802, scan being what the inner loop did
             Scanned(scan) ==
                 [remaining_actual |->
                      IF scan.found # 0 THEN Remove(st.remaining_actual, scan.found)
                      ELSE st.remaining_actual,
                  failed_expected |->
                      IF scan.found = 0 /\ scan.raised = "None"
                      THEN Append(st.failed_expected, i_exp)
                      ELSE st.failed_expected,
                  matches |->
                      IF scan.found # 0 THEN [st.matches EXCEPT ![i_exp] = scan.found]
                      ELSE st.matches,
                  results |-> scan.results,
                  res |-> scan.res,
                  raised |-> scan.raised]
         IN  GreedyPass(expected_exceptions, actual_exceptions, i_exp + 1,
                Scanned(ScanRemaining(expected_exceptions[i_exp], i_exp,
                                      actual_exceptions, st.remaining_actual, 1,
                                      st.results, st.res)))

\* line 786 counting down
InitialRemaining_reversed(actual_exceptions) ==
    [k \in 1..Len(actual_exceptions) |-> Len(actual_exceptions) - k + 1]

\* line 786: remaining_actual = list(range(len(actual_exceptions)))
InitialRemaining(actual_exceptions) == Range1(Len(actual_exceptions))

\* the state of _check_exceptions after its pairing pass
Pairing(expected_exceptions, actual_exceptions) ==
    GreedyPass(expected_exceptions, actual_exceptions, 1,
        [remaining_actual |-> InitialRemaining(actual_exceptions),
         failed_expected |-> <<>>,
         matches |-> [i \in 1..Len(expected_exceptions) |-> 0],
         results |-> ResultHolder(expected_exceptions, actual_exceptions),
         res |-> None,
         raised |-> "None"])

\* the exhaustive check (lines 816-822) from cell k of cells on, cells being
\* <<i_exp, i_actual>> in loop order
ExhaustiveFill(expected_exceptions, actual_exceptions, cells, k, results) ==
    IF k > Len(cells) THEN [results |-> results, raised |-> "None"]
    ELSE IF has_result(results, cells[k][1], cells[k][2])
    THEN ExhaustiveFill(expected_exceptions, actual_exceptions, cells, k + 1, results)
    ELSE LET \* lines 819-822, c being what _check_expected did
             Checked(c) ==
                 IF c.raised # "None" THEN [results |-> results, raised |-> c.raised]
                 ELSE ExhaustiveFill(expected_exceptions, actual_exceptions, cells, k + 1,
                                     set_result(results, cells[k][1], cells[k][2], c.res))
         IN  Checked(_check_expected(expected_exceptions[cells[k][1]],
                                     actual_exceptions[cells[k][2]]))

\* the fixed lines of the report of lines 861, 874 and 891, and the hint of
\* line 724
TooFewFor == "Too few exceptions raised, found no match for: ["

TooFew == "Too few exceptions raised!"

FailedHeader == "The following expected exceptions did not find a match:"

RemainingHeader == "The following raised exceptions did not find a match"

GreedyNote ==
    "There exist a possible match when attempting an exhaustive check, but RaisesGroup uses a greedy algorithm. Please make your expected exceptions more stringent with Matcher etc so the greedy algorithm can function."

FlattenHint == "Did you mean to use flatten_subgroups=True?"

\* line 805 without its test of remaining_actual
AllMatched_ignoring_remaining(remaining_actual, failed_expected) ==
    failed_expected = <<>>

\* line 805: all exceptions matched up successfully
AllMatched(remaining_actual, failed_expected) ==
    remaining_actual = <<>> /\ failed_expected = <<>>

\* RaisesGroup._check_exceptions: pair up expected and actual exceptions;
\* fail_reason is self.fail_reason when it is called
_check_exceptions(self, _exc_val, actual_exceptions, fail_reason_before) ==
    LET expected_exceptions == self.expected_exceptions
        n == Len(expected_exceptions)
        m == Len(actual_exceptions)
        Raise(exception) ==
            [ret |-> FALSE, raised |-> exception, fail_reason |-> fail_reason_before]
        Fail(reason) == [ret |-> FALSE, raised |-> "None", fail_reason |-> reason]
        \* lines 804-893, pass being what the pairing pass left and fill what
        \* the exhaustive check of lines 816-822 left
        Report(pass, fill) ==
            LET remaining_actual == pass.remaining_actual
                failed_expected == pass.failed_expected
                matches == pass.matches
                n_matches == Cardinality({i \in 1..n : matches[i] # 0})
                results == fill.results
                successful_str ==
                    IF n_matches > 0
                    THEN <<repr(n_matches), " matched exception",
                           IF n_matches > 1 THEN "s" ELSE "", ". ">>
                    ELSE <<>>
                no_actual == no_match_for_actual(results, remaining_actual)
                no_expected == no_match_for_expected(results, failed_expected)
                \* rev_matches = {v: k for k, v in matches.items()}, 0: no entry
                rev_matches ==
                    [a \in 1..m |->
                        IF \E e \in 1..n : matches[e] = a
                        THEN CHOOSE e \in 1..n : matches[e] = a
                        ELSE 0]
                \* line 869 reads the cell of i_exp, which the loop of lines 816-822
                \* left at the last expected exception, not of i_failed
                i_exp_left == n
                indent_1 == "  "
                indent_2 == "    "
                RECURSIVE FailedLines(_, _, _)
                \* lines 864-871 over <<i_failed, i_actual>>
                FailedLines(cells, k, s) ==
                    IF k > Len(cells) THEN [s |-> s, raised |-> "None"]
                    ELSE LET i_failed == cells[k][1]
                             i_actual == cells[k][2]
                             s1 == IF i_actual = 1
                                   THEN s \o <<"\n", indent_1,
                                               _repr_expected(expected_exceptions[i_failed])>>
                                   ELSE s
                             cell == get_result(results, i_exp_left, i_actual)
                         IN  IF ~cell.checked THEN [s |-> s1, raised |-> "AssertionError"]
                             ELSE IF cell.res # None THEN FailedLines(cells, k + 1, s1)
                             ELSE IF rev_matches[i_actual] = 0
                             THEN [s |-> s1, raised |-> "KeyError"]
                             ELSE FailedLines(cells, k + 1,
                                    s1 \o <<"\n", indent_2, "It matches ",
                                            repr(actual_exceptions[i_actual]),
                                            " which was paired with ",
                                            _repr_expected(
                                                expected_exceptions[rev_matches[i_actual]])>>)
                RECURSIVE RemainingLines(_, _, _)
                \* lines 875-886 over <<i_actual, i_exp>>
                RemainingLines(cells, k, s) ==
                    IF k > Len(cells) THEN [s |-> s, raised |-> "None"]
                    ELSE LET i_actual == cells[k][1]
                             i_exp == cells[k][2]
                             s1 == IF i_exp = 1
                                   THEN s \o <<"\n", indent_1,
                                               repr(actual_exceptions[i_actual]), ":">>
                                   ELSE s
                             cell == get_result(results, i_exp, i_actual)
                             failed == \E j \in 1..Len(failed_expected) : failed_expected[j] = i_exp
                         IN  IF ~cell.checked THEN [s |-> s1, raised |-> "AssertionError"]
                             ELSE IF failed /\ cell.res = None
                             THEN [s |-> s1, raised |-> "AssertionError"]
                             ELSE IF failed
                             THEN RemainingLines(cells, k + 1,
                                    s1 \o (IF Head(cell.res) # "\n" THEN <<"\n">> ELSE <<>>)
                                       \o indent(cell.res, indent_2))
                             ELSE IF cell.res # None THEN RemainingLines(cells, k + 1, s1)
                             ELSE IF matches[i_exp] = 0
                             THEN [s |-> s1, raised |-> "KeyError"]
                             ELSE RemainingLines(cells, k + 1,
                                    s1 \o <<"\n", indent_2, "It matches ",
                                            _repr_expected(expected_exceptions[i_exp]),
                                            " which was paired with ",
                                            repr(actual_exceptions[matches[i_exp]])>>)
                s_head ==
                    (IF n_matches > 0 THEN <<"\n">> \o successful_str ELSE <<>>)
                    \o (IF remaining_actual = <<>> THEN <<"\n", TooFew>>
                        ELSE IF failed_expected = <<>> THEN <<"\n", "Unexpected exception(s)!">>
                        ELSE <<>>)
                    \o (IF failed_expected # <<>>
                        THEN <<"\n", FailedHeader>>
                        ELSE <<>>)
                s_failed == FailedLines(Pairs(failed_expected, Range1(m)), 1, s_head)
                s_remaining ==
                    RemainingLines(Pairs(remaining_actual, Range1(n)), 1,
                        s_failed.s
                        \o (IF remaining_actual # <<>>
                            THEN <<"\n", RemainingHeader>>
                            ELSE <<>>))
            IN  IF pass.raised # "None" THEN Raise(pass.raised)
                \* All exceptions matched up successfully
                ELSE IF AllMatched(remaining_actual, failed_expected)
                THEN [ret |-> TRUE, raised |-> "None", fail_reason |-> fail_reason_before]
                \* a single expected and a single raised: the output is simplified
                ELSE IF m = 1 /\ n = 1
                THEN IF n_matches > 0 THEN Raise("AssertionError") ELSE Fail(pass.res)
                ELSE IF fill.raised # "None" THEN Raise(fill.raised)
                \* all expected were found
                ELSE IF failed_expected = <<>> /\ no_actual.raised # "None"
                THEN Raise(no_actual.raised)
                ELSE IF failed_expected = <<>> /\ no_actual.ret
                THEN Fail(successful_str
                          \o <<"Unexpected exception(s): ",
                               repr([k \in 1..Len(remaining_actual) |->
                                        actual_exceptions[remaining_actual[k]]])>>)
                \* all raised exceptions were expected
                ELSE IF remaining_actual = <<>> /\ no_expected.raised # "None"
                THEN Raise(no_expected.raised)
                ELSE IF remaining_actual = <<>> /\ no_expected.ret
                THEN Fail(successful_str
                          \o <<TooFewFor>>
                          \o JoinWith([k \in 1..Len(failed_expected) |->
                                          _repr_expected(expected_exceptions[failed_expected[k]])],
                                      ", ")
                          \o <<"]">>)
                \* one remaining and one failed, and neither matches anything else
                ELSE IF Len(remaining_actual) = 1 /\ Len(failed_expected) = 1
                        /\ no_actual.raised # "None"
                THEN Raise(no_actual.raised)
                ELSE IF Len(remaining_actual) = 1 /\ Len(failed_expected) = 1
                        /\ no_actual.ret /\ no_expected.raised # "None"
                THEN Raise(no_expected.raised)
                ELSE IF Len(remaining_actual) = 1 /\ Len(failed_expected) = 1
                        /\ no_actual.ret /\ no_expected.ret
                THEN IF ~get_result(results, failed_expected[1], remaining_actual[1]).checked
                     THEN Raise("AssertionError")
                     ELSE Fail(successful_str
                               \o get_result(results, failed_expected[1], remaining_actual[1]).res)
                \* there's both expected and raised exceptions without matches
                ELSE IF s_failed.raised # "None" THEN Raise(s_failed.raised)
                ELSE IF s_remaining.raised # "None" THEN Raise(s_remaining.raised)
                ELSE Fail(s_remaining.s
                          \o (IF n = m /\ possible_match(results, {})
                              THEN <<"\n", GreedyNote>>
                              ELSE <<>>))
        Paired(pass) ==
            Report(pass, ExhaustiveFill(expected_exceptions, actual_exceptions,
                                        Pairs(Range1(n), Range1(m)), 1, pass.results))
    IN  Paired(Pairing(expected_exceptions, actual_exceptions))

\* line 668 not asking what the expected exception said
UnwrappedMatch_any(res, allow_unwrapped) == allow_unwrapped

\* line 668 not asking for allow_unwrapped
UnwrappedMatch_unasked(res, allow_unwrapped) == res = None

\* line 668: a bare exception is matched when the one expected exception
\* accepts it (res is None) and allow_unwrapped is set
UnwrappedMatch(res, allow_unwrapped) == res = None /\ allow_unwrapped

\* the exc_val of a call that is given None
NoException == [type |-> "NoneType", message |-> <<>>, notes |-> <<>>, exceptions |-> <<>>]

\* RaisesGroup.matches
RaisesGroup_matches(self, exc_val) ==
    LET expected_exceptions == self.expected_exceptions
        \* invoked: self.check was called on exc_val (line 212, from line 734)
        Return(ret, reason) ==
            [ret |-> ret, raised |-> "None", fail_reason |-> reason, invoked |-> FALSE]
        Raise(exception, reason) ==
            [ret |-> FALSE, raised |-> exception, fail_reason |-> reason,
             invoked |-> FALSE]
        not_group_msg == <<repr(exc_val.type), " is not an exception group">>
        actual_exceptions ==
            IF self.flatten_subgroups THEN _unroll_exceptions(exc_val.exceptions)
            ELSE exc_val.exceptions
        match_reason == _check_match(self.match_expr, exc_val)
        check_reason == _check_check(self.check, exc_val, self._nested)
        \* lines 665-679, unwrapped being what _check_expected did for the one
        \* expected exception: would it match even if allow_unwrapped is not set
        Unwrapped(unwrapped) ==
            IF unwrapped.raised # "None"
            THEN Raise(unwrapped.raised, None)
            ELSE IF UnwrappedMatch(unwrapped.res, self.allow_unwrapped)
            THEN Return(TRUE, None)
            ELSE IF unwrapped.res = None
            THEN Return(FALSE, not_group_msg
                               \o <<", but would match with allow_unwrapped=True">>)
            ELSE IF self.allow_unwrapped THEN Return(FALSE, unwrapped.res)
            ELSE Return(FALSE, not_group_msg)
        \* lines 717-726, second being what the second pass, over the
        \* flattened group, did
        Flattened(old_reason, second) ==
            IF second.raised # "None" THEN Raise(second.raised, second.fail_reason)
            ELSE IF second.ret
            THEN Return(FALSE, old_reason
                               \o <<"\n", FlattenHint>>)
            ELSE Return(FALSE, old_reason)
        \* lines 703-734, first being what _check_exceptions did
        Checked(first) ==
            IF first.raised # "None" THEN Raise(first.raised, first.fail_reason)
            ELSE IF ~first.ret
            THEN IF first.fail_reason = None
                 THEN Raise("AssertionError", None)
                 \* not expecting a nested structure, and there is one: a second
                 \* pass that tries flattening it
                 ELSE IF /\ ~self.flatten_subgroups
                         /\ ~\E i \in 1..Len(expected_exceptions) :
                                expected_exceptions[i].kind = "RaisesGroup"
                         /\ \E i \in 1..Len(actual_exceptions) :
                                IsGroup(actual_exceptions[i])
                 THEN Flattened(first.fail_reason,
                                _check_exceptions(self, exc_val,
                                                  _unroll_exceptions(exc_val.exceptions),
                                                  first.fail_reason))
                 ELSE Return(FALSE, first.fail_reason)
            \* only run self.check once we know exc_val is correct
            ELSE [ret |-> check_reason = None, raised |-> "None",
                  fail_reason |-> check_reason, invoked |-> self.check # "None"]
    IN  IF exc_val = NoException THEN Return(FALSE, <<"exception is None">>)
        ELSE IF ~IsGroup(exc_val)
        THEN IF Len(expected_exceptions) > 1 THEN Return(FALSE, not_group_msg)
             ELSE Unwrapped(_check_expected(expected_exceptions[1], exc_val))
        ELSE IF match_reason # None
        THEN IF /\ Len(actual_exceptions) = 1
                /\ Len(expected_exceptions) = 1
                /\ expected_exceptions[1].kind = "type"
                /\ isinstance(actual_exceptions[1], expected_exceptions[1].name)
                /\ _check_match(self.match_expr, actual_exceptions[1]) = None
             THEN Return(FALSE,
                    match_reason
                    \o <<", but matched the expected ",
                         _repr_expected(expected_exceptions[1]),
                         ". You might want RaisesGroup(Matcher(",
                         expected_exceptions[1].name, ", match=",
                         repr(self.match_expr[1]), "))">>)
             ELSE Return(FALSE, match_reason)
        \* do the full check on expected exceptions
        ELSE Checked(_check_exceptions(self, exc_val, actual_exceptions, None))

----------------------------------------------------------------------------
(* The RaisesGroup objects and the exceptions of the model. *)

ExpectedTypes == {TypeSpec("ValueError"), TypeSpec("TypeError"), TypeSpec("Exception")}

Matchers ==
    { Matcher("ValueError", <<hello>>, "None"),
      Matcher("None", <<hello>>, "type_is_ValueError") }

\* what a constructor call returns, for arguments it accepts
Constructed(exceptions, allow_unwrapped, flatten_subgroups, match, check) ==
    RaisesGroup_init(exceptions, allow_unwrapped, flatten_subgroups, match, check).self

NestedGroups ==
    { Constructed(<<TypeSpec("ValueError")>>, FALSE, FALSE, None, "None"),
      Constructed(<<TypeSpec("TypeError"), TypeSpec("ValueError")>>,
                  FALSE, FALSE, None, "None") }

ExpectedPatterns == ExpectedTypes \cup Matchers \cup NestedGroups

ExpectedSeqs ==
    UNION { [1..k -> ExpectedPatterns] : k \in 1..MaxExpected }

\* every RaisesGroup the constructor builds from the arguments of the model
RaisesGroups ==
    { Constructed(es, au, fl, ma, ch) :
        <<es, au, fl, ma, ch>> \in
            { a \in ExpectedSeqs \X BOOLEAN \X BOOLEAN \X {None, <<hello>>}
                    \X {"None", "one_exception"} :
                RaisesGroup_init(a[1], a[2], a[3], a[4], a[5]).raised = "None" } }

\* what is passed to matches: None, a bare exception, a group
MatchInputs == {NoException} \cup LeafExcs \cup GroupExcs

\* the objects and exceptions of the scoped-block runs
ScopeGroups ==
    { Constructed(<<TypeSpec("ValueError")>>, FALSE, FALSE, None, "None"),
      Constructed(<<TypeSpec("Exception")>>, TRUE, FALSE, None, "None"),
      Constructed(<<TypeSpec("TypeError"), TypeSpec("ValueError")>>,
                  FALSE, FALSE, None, "None") }

ScopeInputs ==
    { NoException,
      Exc("AssertionError", empty, <<>>),
      ExceptionGroup(empty, <<Exc("ValueError", hello, <<>>)>>),
      ExceptionGroup(empty, <<Exc("ValueError", hello, <<>>),
                              Exc("ValueError", goodbye, <<>>)>>) }

----------------------------------------------------------------------------
(* The state machine. *)

NoCall ==
    [op |-> "init", exc_val |-> NoException, ret |-> FALSE, raised |-> "None", handle |-> 0]

InitOf(groups) ==
    /\ rg \in groups
    /\ fail_reason = None
    /\ excinfo = 0
    /\ handles = <<>>
    /\ blocks = <<>>
    /\ call = NoCall

\* rg.matches(exc_val), called directly
MatchesCall(inputs) ==
    \E exc_val \in inputs :
        LET m == RaisesGroup_matches(rg, exc_val)
        IN  /\ fail_reason' = m.fail_reason
            /\ call' = [op |-> "matches", exc_val |-> exc_val, ret |-> m.ret,
                        raised |-> m.raised, handle |-> 0, invoked |-> m.invoked]
            /\ UNCHANGED <<rg, excinfo, handles, blocks>>

\* ExceptionInfo.for_later / RaisesGroup.__enter__: a `with rg` block opens
Enter ==
    /\ Len(handles) < MaxBlocks
    /\ handles' = Append(handles, None)
    /\ excinfo' = Len(handles) + 1
    /\ blocks' = Append(blocks, Len(handles) + 1)
    /\ call' = [op |-> "enter", exc_val |-> NoException, ret |-> FALSE,
                raised |-> "None", handle |-> Len(handles) + 1]
    /\ UNCHANGED <<rg, fail_reason>>

\* the (type, value, traceback) that __exit__ is called with for exc_val
ExcInfoOf(exc_val) == [type |-> exc_val.type, value |-> exc_val, tb |-> "traceback"]

\* _ExceptionInfo.fill_unfilled on handle h
fill_unfilled(h, exc_info) ==
    IF handles[h] # None
    THEN [raised |-> "AssertionError", handles |-> handles]
    ELSE [raised |-> "None", handles |-> [handles EXCEPT ![h] = <<exc_info>>]]

\* __exit__ with line 915 a plain call of matches instead of an assert: an
\* exception that does not match leaves __exit__ returning False
Exit_unasserted(inputs) ==
    /\ blocks # <<>>
    /\ \E exc_val \in inputs :
        LET m == RaisesGroup_matches(rg, exc_val)
            filled == fill_unfilled(excinfo, ExcInfoOf(exc_val))
            Ended(ret, raised) ==
                [op |-> "exit", exc_val |-> exc_val, ret |-> ret, raised |-> raised,
                 handle |-> blocks[Len(blocks)]]
        IN  /\ blocks' = SubSeq(blocks, 1, Len(blocks) - 1)
            /\ UNCHANGED <<rg, excinfo>>
            /\ IF exc_val = NoException
               THEN /\ call' = Ended(FALSE, "AssertionError")
                    /\ UNCHANGED <<fail_reason, handles>>
               ELSE IF m.raised # "None"
               THEN /\ call' = Ended(FALSE, m.raised)
                    /\ fail_reason' = m.fail_reason
                    /\ UNCHANGED handles
               ELSE IF ~m.ret
               THEN /\ call' = Ended(FALSE, "None")
                    /\ fail_reason' = m.fail_reason
                    /\ UNCHANGED handles
               ELSE /\ call' = Ended(filled.raised = "None", filled.raised)
                    /\ fail_reason' = m.fail_reason
                    /\ handles' = filled.handles

\* RaisesGroup.__exit__(type(exc_val), exc_val, traceback): the innermost
\* open block ends, with exc_val propagating out of its body (or with none)
Exit(inputs) ==
    /\ blocks # <<>>
    /\ \E exc_val \in inputs :
        LET m == RaisesGroup_matches(rg, exc_val)
            exc_info == [type |-> exc_val.type, value |-> exc_val, tb |-> "traceback"]
            filled == fill_unfilled(excinfo, exc_info)
            Ended(ret, raised) ==
                [op |-> "exit", exc_val |-> exc_val, ret |-> ret, raised |-> raised,
                 handle |-> blocks[Len(blocks)]]
        IN  /\ blocks' = SubSeq(blocks, 1, Len(blocks) - 1)
            /\ UNCHANGED <<rg, excinfo>>
            /\ IF exc_val = NoException
               \* DID NOT RAISE any exception
               THEN /\ call' = Ended(FALSE, "AssertionError")
                    /\ UNCHANGED <<fail_reason, handles>>
               ELSE IF m.raised # "None"
               THEN /\ call' = Ended(FALSE, m.raised)
                    /\ fail_reason' = m.fail_reason
                    /\ UNCHANGED handles
               ELSE IF ~m.ret
               \* Raised exception group did not match
               THEN /\ call' = Ended(FALSE, "AssertionError")
                    /\ fail_reason' = m.fail_reason
                    /\ UNCHANGED handles
               ELSE /\ call' = Ended(filled.raised = "None", filled.raised)
                    /\ fail_reason' = m.fail_reason
                    /\ handles' = filled.handles

\* the arguments Matcher is called with
MatcherArgs ==
    {"None", "ValueError", "Exception", "int", "5"}
        \X {None, <<hello>>} \X {"None", "type_is_ValueError"}

\* what RaisesGroup is called with as expected exceptions: also a class that
\* is no exception class and a value that is no class
ArgumentSeqs ==
    UNION { [1..k -> ExpectedPatterns \cup {TypeSpec("int"), [kind |-> "other", name |-> "5"]}] :
            k \in 1..MaxExpected }

\* the arguments RaisesGroup is called with
RaisesGroupArgs ==
    ArgumentSeqs \X BOOLEAN \X BOOLEAN \X {None, <<hello>>} \X {"None", "one_exception"}

Constructor(op, args, raised) ==
    [op |-> op, exc_val |-> NoException, ret |-> FALSE, raised |-> raised,
     handle |-> 0, args |-> args]

\* Matcher(exception_type, match=match, check=check)
MatcherConstruct ==
    /\ call.op = "init"
    /\ \E a \in MatcherArgs :
          /\ rg' = Matcher_init(a[1], a[2], a[3]).self
          /\ call' = Constructor("Matcher", a, Matcher_init(a[1], a[2], a[3]).raised)
    /\ UNCHANGED <<fail_reason, excinfo, handles, blocks>>

\* rg.matches(exception) on the Matcher constructed
MatcherMatches ==
    /\ call.op \in {"Matcher", "Matcher.matches"}
    /\ call.raised = "None"
    /\ \E exception \in LeafExcs \cup GroupExcs :
          /\ fail_reason' = Matcher_matches(rg, exception).fail_reason
          /\ call' = [op |-> "Matcher.matches", exc_val |-> exception,
                      ret |-> Matcher_matches(rg, exception).ret,
                      raised |-> "None", handle |-> 0,
                      invoked |-> Matcher_matches(rg, exception).invoked]
    /\ UNCHANGED <<rg, excinfo, handles, blocks>>

\* RaisesGroup(*exceptions, allow_unwrapped=..., flatten_subgroups=...,
\* match=..., check=...)
RaisesGroupConstruct ==
    /\ call.op = "init"
    /\ \E a \in RaisesGroupArgs :
          /\ rg' = RaisesGroup_init(a[1], a[2], a[3], a[4], a[5]).self
          /\ call' = Constructor("RaisesGroup", a,
                                 RaisesGroup_init(a[1], a[2], a[3], a[4], a[5]).raised)
    /\ UNCHANGED <<fail_reason, excinfo, handles, blocks>>

Init == InitOf(RaisesGroups)

\* the first call of matches on a fresh object: matches resets fail_reason
\* on entry, so what a call returns depends on its arguments only
Next ==
    /\ call.op = "init"
    /\ MatchesCall(MatchInputs)

\* a direct call of matches on any constructed RaisesGroup
Spec == Init /\ [][Next]_vars

InitScope == InitOf(ScopeGroups)

NextScope ==
    \/ Enter
    \/ Exit(ScopeInputs)
    \/ MatchesCall(ScopeInputs)

\* one RaisesGroup used as a context manager, any number of times
SpecScope == InitScope /\ [][NextScope]_vars

\* nothing is constructed yet
InitConstruct == InitOf({None})

NextConstruct ==
    \/ MatcherConstruct
    \/ MatcherMatches
    \/ RaisesGroupConstruct

\* the constructors called with any arguments, and the Matcher used
SpecConstruct == InitConstruct /\ [][NextConstruct]_vars

\* the cells of a completed table: None, or the reason of a failed match
CompletedCells ==
    {[checked |-> TRUE, res |-> r] : r \in {None, <<"TypeError is not of type ValueError">>}}

\* the completed tables line 888 hands to possible_match: as many rows
\* (actual exceptions) as columns (expected exceptions)
CompletedTables ==
    UNION { [1..n -> [1..n -> CompletedCells]] : n \in 0..MaxRows }

\* possible_match(results), as called at line 888
PossibleMatchCall ==
    \E results \in CompletedTables :
        /\ call' = [Constructor("possible_match", results, "None")
                      EXCEPT !.ret = possible_match(results, {})]
        /\ UNCHANGED <<rg, fail_reason, excinfo, handles, blocks>>

InitTable == InitOf({None})

NextTable == PossibleMatchCall

\* possible_match called on any completed square table
SpecTable == InitTable /\ [][NextTable]_vars

\* RaisesGroup objects expecting MaxExpected types or Matchers
PairingGroups ==
    { Constructed(es, FALSE, FALSE, None, "None") :
        es \in UNION { [1..k -> ExpectedTypes \cup Matchers] : k \in 1..MaxExpected } }

\* exception groups of leaf exceptions
PairingInputs ==
    { ExceptionGroup(empty, s) :
        s \in UNION { [1..k -> LeafExcs] : k \in 1..MaxLeaves } }

\* the locals of _check_exceptions while its loops run: phase is the loop
\* ("greedy": lines 793-802, "fill": lines 816-822, "done": after them),
\* i_exp the expected exception of the outer loop, k the position of the
\* inner loop; evals counts the calls of _check_expected for each pair
PairingRun(exc_val, phase, i_exp, k, st, evals) ==
    [op |-> "pairing", exc_val |-> exc_val, ret |-> FALSE, raised |-> "None",
     handle |-> 0, phase |-> phase, i_exp |-> i_exp, k |-> k,
     remaining_actual |-> st.remaining_actual,
     failed_expected |-> st.failed_expected,
     matches |-> st.matches, results |-> st.results, evals |-> evals]

\* _check_exceptions is entered (lines 783-790)
PairingStart ==
    /\ call.op = "init"
    /\ \E exc_val \in PairingInputs :
          call' = PairingRun(exc_val, "greedy", 1, 1,
                     [remaining_actual |-> InitialRemaining(exc_val.exceptions),
                      failed_expected |-> <<>>,
                      matches |-> [i \in 1..Len(rg.expected_exceptions) |-> 0],
                      results |-> ResultHolder(rg.expected_exceptions,
                                               exc_val.exceptions)],
                     [a \in 1..Len(exc_val.exceptions) |->
                         [e \in 1..Len(rg.expected_exceptions) |-> 0]])
    /\ UNCHANGED <<rg, fail_reason, excinfo, handles, blocks>>

\* one more call of _check_expected for the pair
Evaluated(evals, expected, actual) ==
    [evals EXCEPT ![actual][expected] = @ + 1]

\* one iteration of the inner loop of the pairing pass (lines 794-800), or
\* its else clause (line 802)
GreedyStep ==
    /\ call.op = "pairing" /\ call.phase = "greedy"
    /\ call.i_exp <= Len(rg.expected_exceptions)
    /\ LET i_exp == call.i_exp
           Next_expected(st, evals) ==
               PairingRun(call.exc_val, "greedy", i_exp + 1, 1, st, evals)
           Checked(i_rem, res) ==
               IF res = None
               THEN Next_expected(
                        [remaining_actual |-> Remove(call.remaining_actual, i_rem),
                         failed_expected |-> call.failed_expected,
                         matches |-> [call.matches EXCEPT ![i_exp] = i_rem],
                         results |-> set_result(call.results, i_exp, i_rem, res)],
                        Evaluated(call.evals, i_exp, i_rem))
               ELSE PairingRun(call.exc_val, "greedy", i_exp, call.k + 1,
                        [remaining_actual |-> call.remaining_actual,
                         failed_expected |-> call.failed_expected,
                         matches |-> call.matches,
                         results |-> set_result(call.results, i_exp, i_rem, res)],
                        Evaluated(call.evals, i_exp, i_rem))
       IN  call' =
             IF call.k > Len(call.remaining_actual)
             THEN Next_expected(
                      [remaining_actual |-> call.remaining_actual,
                       failed_expected |-> Append(call.failed_expected, i_exp),
                       matches |-> call.matches,
                       results |-> call.results],
                      call.evals)
             ELSE Checked(call.remaining_actual[call.k],
                          _check_expected(
                              rg.expected_exceptions[i_exp],
                              call.exc_val.exceptions[call.remaining_actual[call.k]]).res)
    /\ UNCHANGED <<rg, fail_reason, excinfo, handles, blocks>>

\* the pairing pass is over: lines 805-812 return, or the exhaustive check
\* starts
GreedyEnd ==
    /\ call.op = "pairing" /\ call.phase = "greedy"
    /\ call.i_exp > Len(rg.expected_exceptions)
    /\ call' = [call EXCEPT
                  !.phase =
                      IF \/ AllMatched(call.remaining_actual, call.failed_expected)
                         \/ /\ Len(call.exc_val.exceptions) = 1
                            /\ Len(rg.expected_exceptions) = 1
                      THEN "done" ELSE "fill",
                  !.i_exp = 1,
                  !.k = 1]
    /\ UNCHANGED <<rg, fail_reason, excinfo, handles, blocks>>

\* one iteration of the inner loop of the exhaustive check (lines 817-822),
\* k being i_actual
FillStep ==
    /\ call.op = "pairing" /\ call.phase = "fill"
    /\ LET i_exp == call.i_exp
           i_actual == call.k
           last_actual == i_actual = Len(call.exc_val.exceptions)
           last == last_actual /\ i_exp = Len(rg.expected_exceptions)
           Advanced(results, evals) ==
               [call EXCEPT
                  !.phase = IF last THEN "done" ELSE "fill",
                  !.i_exp = IF last_actual /\ ~last THEN i_exp + 1 ELSE i_exp,
                  !.k = IF last THEN i_actual
                        ELSE IF last_actual THEN 1 ELSE i_actual + 1,
                  !.results = results,
                  !.evals = evals]
       IN  call' =
             IF has_result(call.results, i_exp, i_actual)
             THEN Advanced(call.results, call.evals)
             ELSE Advanced(
                      set_result(call.results, i_exp, i_actual,
                                 _check_expected(rg.expected_exceptions[i_exp],
                                                 call.exc_val.exceptions[i_actual]).res),
                      Evaluated(call.evals, i_exp, i_actual))
    /\ UNCHANGED <<rg, fail_reason, excinfo, handles, blocks>>

InitPairing == InitOf(PairingGroups)

NextPairing ==
    \/ PairingStart
    \/ GreedyStep
    \/ GreedyEnd
    \/ FillStep

\* the loops of one run of _check_exceptions, iteration by iteration
SpecPairing == InitPairing /\ [][NextPairing]_vars

\* the objects whose matches is called again and again
ReusedObjects ==
    ScopeGroups \cup Matchers
    \cup { Constructed(<<TypeSpec("ValueError")>>, FALSE, FALSE, <<hello>>, "one_exception"),
           Constructed(<<Matcher("ValueError", <<hello>>, "None"), TypeSpec("Exception")>>,
                       FALSE, TRUE, None, "None"),
           Matcher("ValueError", None, "None"),
           Matcher("Exception", <<hello>>, "type_is_ValueError") }

\* what matches is called with: None, bare exceptions, groups
ReuseInputs == ScopeInputs \cup LeafExcs \cup PairingInputs

\* matches of the RaisesGroup when line 654 does not reset fail_reason
GroupMatchesAgain_stale ==
    /\ rg.kind = "RaisesGroup"
    /\ \E exc_val \in ReuseInputs :
          LET Called(m) ==
                  /\ fail_reason' =
                        IF m.fail_reason = None THEN fail_reason ELSE m.fail_reason
                  /\ call' = [op |-> "matches", exc_val |-> exc_val, ret |-> m.ret,
                              raised |-> m.raised, handle |-> 0, invoked |-> m.invoked,
                              stale |-> fail_reason]
          IN  Called(RaisesGroup_matches(rg, exc_val))
    /\ UNCHANGED <<rg, excinfo, handles, blocks>>

\* rg.matches(exc_val) on a RaisesGroup that may have been used before;
\* stale is the fail_reason the call finds
GroupMatchesAgain ==
    /\ rg.kind = "RaisesGroup"
    /\ \E exc_val \in ReuseInputs :
          LET Called(m) ==
                  /\ fail_reason' = m.fail_reason
                  /\ call' = [op |-> "matches", exc_val |-> exc_val, ret |-> m.ret,
                              raised |-> m.raised, handle |-> 0, invoked |-> m.invoked,
                              stale |-> fail_reason]
          IN  Called(RaisesGroup_matches(rg, exc_val))
    /\ UNCHANGED <<rg, excinfo, handles, blocks>>

\* rg.matches(exception) on a Matcher that may have been used before
MatcherMatchesAgain ==
    /\ rg.kind = "Matcher"
    /\ \E exception \in ReuseInputs \ {NoException} :
          LET Called(m) ==
                  /\ fail_reason' = m.fail_reason
                  /\ call' = [op |-> "Matcher.matches", exc_val |-> exception,
                              ret |-> m.ret, raised |-> "None", handle |-> 0,
                              invoked |-> m.invoked, stale |-> fail_reason]
          IN  Called(Matcher_matches(rg, exception))
    /\ UNCHANGED <<rg, excinfo, handles, blocks>>

InitReuse == InitOf(ReusedObjects)

NextReuse ==
    \/ GroupMatchesAgain
    \/ MatcherMatchesAgain

\* matches called any number of times on one object
SpecReuse == InitReuse /\ [][NextReuse]_vars

\* RaisesGroup objects expecting MaxReport types or Matchers, a Matcher of
\* the text alone among them
ReportGroups ==
    { Constructed(es, FALSE, FALSE, None, "None") :
        es \in [1..MaxReport ->
                  ExpectedTypes \cup Matchers \cup {Matcher("None", <<hello>>, "None")}] }

\* exception groups of MaxReport leaf exceptions, and groups of one group
\* of fewer
ReportInputs ==
    { ExceptionGroup(empty, s) : s \in [1..MaxReport -> LeafExcs] }
    \cup { ExceptionGroup(empty, <<ExceptionGroup(hello, s)>>) :
              s \in [1..(MaxReport - 1) -> LeafExcs] }

InitReport == InitOf(ReportGroups)

NextReport ==
    /\ call.op = "init"
    /\ MatchesCall(ReportInputs)

\* a direct call of matches, with more expected and raised exceptions than
\* in Spec and no nesting
SpecReport == InitReport /\ [][NextReport]_vars

----------------------------------------------------------------------------
(* Properties. *)

\* the last operation was a call of matches / the exit of a block
MatchesCalled == call.op = "matches"

\* the call returned ret (and did not raise)
Returned(ret) == call.raised = "None" /\ call.ret = ret

\* the actual exceptions the pairing runs over (line 681-683)
ActualOf(self, exc_val) ==
    IF self.flatten_subgroups THEN _unroll_exceptions(exc_val.exceptions)
    ELSE exc_val.exceptions

\* the exception satisfies the expected type / Matcher / RaisesGroup
Satisfies(expected, exception) ==
    /\ _check_expected(expected, exception).raised = "None"
    /\ _check_expected(expected, exception).res = None

\* matches was called on an exception group
GroupCalled == MatchesCalled /\ IsGroup(call.exc_val)

\* C1: whenever matches returns True for an exception group, the greedy pass
\* has paired every expected exception with its own actual exception (of the
\* flattened group when flatten_subgroups is set), which satisfies it, and no
\* actual exception is left unpaired: there are as many of the ones as of
\* the others.
C1_TruePairsAll ==
    (GroupCalled /\ Returned(TRUE)) =>
        LET E == rg.expected_exceptions
            A == ActualOf(rg, call.exc_val)
            paired == Pairing(E, A).matches
        IN  /\ Len(E) = Len(A)
            /\ \A i \in 1..Len(E) :
                  /\ paired[i] \in 1..Len(A)
                  /\ Satisfies(E[i], A[paired[i]])
            /\ \A i, j \in 1..Len(E) : i # j => paired[i] # paired[j]
            /\ \A a \in 1..Len(A) : \E i \in 1..Len(E) : paired[i] = a

\* C1 happens: True for a flattened nested group of two exceptions.
C1_Witness ==
    /\ GroupCalled /\ Returned(TRUE)
    /\ rg.flatten_subgroups
    /\ Len(rg.expected_exceptions) = 2
    /\ \E i \in 1..Len(call.exc_val.exceptions) : IsGroup(call.exc_val.exceptions[i])

\* the actual exceptions paired with an expected exception before i
TakenBefore(paired, i) == {paired[k] : k \in {k \in 1..(i - 1) : paired[k] # 0}}

\* C2: in the pairing pass each expected exception, in declared order, is
\* paired with the lowest-index actual exception that is still unpaired and
\* satisfies it (with none only if no unpaired one satisfies it), and an
\* actual exception that has been paired is never tried against a later
\* expected exception.
C2_FirstFitInOrder ==
    GroupCalled =>
        LET E == rg.expected_exceptions
            A == ActualOf(rg, call.exc_val)
            pass == Pairing(E, A)
            paired == pass.matches
            Free(i) == {a \in 1..Len(A) : a \notin TakenBefore(paired, i)}
            Fits(i) == {a \in Free(i) : Satisfies(E[i], A[a])}
        IN  \A i \in 1..Len(E) :
              /\ paired[i] # 0 =>
                    /\ paired[i] \in Fits(i)
                    /\ \A a \in Fits(i) : paired[i] <= a
              /\ (paired[i] = 0 /\ pass.raised = "None") =>
                    /\ Fits(i) = {}
                    /\ \E k \in 1..Len(pass.failed_expected) : pass.failed_expected[k] = i
              /\ \A a \in 1..Len(A) :
                    has_result(pass.results, i, a) => a \in Free(i)

\* C2 happens: the second expected exception finds the first actual
\* exception taken and is paired with a later one.
C2_Witness ==
    /\ GroupCalled
    /\ Len(rg.expected_exceptions) = 2
    /\ LET A == ActualOf(rg, call.exc_val)
           paired == Pairing(rg.expected_exceptions, A).matches
       IN  /\ Len(A) = 2
           /\ paired = <<1, 2>>
           /\ Satisfies(rg.expected_exceptions[2], A[1])

\* some pairing gives every expected exception its own actual exception
\* that satisfies it, with none left over
CompletePairingExists(E, A) ==
    /\ Len(E) = Len(A)
    /\ \E f \in [1..Len(E) -> 1..Len(A)] :
          /\ \A i, j \in 1..Len(E) : i # j => f[i] # f[j]
          /\ \A i \in 1..Len(E) : Satisfies(E[i], A[f[i]])

\* the example of the RaisesGroup docstring (lines 396-402)
GreedyExample ==
    /\ GroupCalled
    /\ rg.expected_exceptions =
          <<TypeSpec("ValueError"), Matcher("ValueError", <<hello>>, "None")>>
    /\ call.exc_val.exceptions =
          <<Exc("ValueError", hello, <<>>), Exc("ValueError", goodbye, <<>>)>>

\* C3: an earlier, looser expected exception takes the actual exception that
\* a later, stricter one needs: when the first expected exception accepts
\* both actual exceptions and the second only the first of them, matches
\* does not return True although a complete pairing exists; for
\* [ValueError, Matcher(ValueError, match="hello")] against
\* [ValueError("hello"), ValueError("goodbye")] it returns False.
C3_GreedySteals ==
    /\ GreedyExample =>
          /\ Returned(FALSE)
          /\ CompletePairingExists(rg.expected_exceptions, call.exc_val.exceptions)
    /\ (/\ GroupCalled
        /\ Len(rg.expected_exceptions) = 2
        /\ Len(ActualOf(rg, call.exc_val)) = 2
        /\ LET E == rg.expected_exceptions
               A == ActualOf(rg, call.exc_val)
           IN  /\ Satisfies(E[1], A[1]) /\ Satisfies(E[1], A[2])
               /\ Satisfies(E[2], A[1]) /\ ~Satisfies(E[2], A[2]))
       => /\ ~Returned(TRUE)
          /\ CompletePairingExists(rg.expected_exceptions, ActualOf(rg, call.exc_val))

\* C3 happens: the docstring's example on a RaisesGroup with no other option.
C3_Witness ==
    /\ GreedyExample
    /\ rg.match_expr = None /\ rg.check = "None" /\ ~rg.flatten_subgroups
    /\ call.exc_val.message = empty
    /\ Returned(FALSE)

\* every expected exception is a plain exception class
PlainTypes(self) ==
    \A i \in 1..Len(self.expected_exceptions) : self.expected_exceptions[i].kind = "type"

\* no match and no check on the group
NoGroupChecks(self) == self.match_expr = None /\ self.check = "None"

\* two classes overlap when some class is a subclass of both (so a class
\* overlaps itself and its base classes)
Overlap(t, u) == \E x \in TypeNames : issubclass(x, t) /\ issubclass(x, u)

NonOverlapping(self) ==
    \A i, j \in 1..Len(self.expected_exceptions) :
        i # j => ~Overlap(self.expected_exceptions[i].name,
                          self.expected_exceptions[j].name)

Orderings(n) == {f \in [1..n -> 1..n] : \A i, j \in 1..n : i # j => f[i] # f[j]}

Permuted(seq, f) == [i \in 1..Len(seq) |-> seq[f[i]]]

\* C4: for a RaisesGroup of plain, pairwise non-overlapping exception
\* classes without match or check, matches gives the same boolean verdict
\* for every order of the expected exceptions and every order of the
\* exceptions in the group.
C4_OrderIndependent ==
    (GroupCalled /\ PlainTypes(rg) /\ NonOverlapping(rg) /\ NoGroupChecks(rg)) =>
        \A f \in Orderings(Len(rg.expected_exceptions)) :
        \A g \in Orderings(Len(call.exc_val.exceptions)) :
            LET m == RaisesGroup_matches(
                        [rg EXCEPT !.expected_exceptions = Permuted(@, f)],
                        [call.exc_val EXCEPT !.exceptions = Permuted(@, g)])
            IN  /\ m.raised = "None" /\ call.raised = "None"
                /\ m.ret = call.ret

\* C5: a RaisesGroup of two exception classes [T1, T2] (no match, no check)
\* returns True for every group of two exceptions of which exactly one is a
\* T1 and exactly one, the other, is a T2, whichever comes first.
C5_TwoTypesEitherOrder ==
    (/\ GroupCalled /\ PlainTypes(rg) /\ NoGroupChecks(rg)
     /\ Len(rg.expected_exceptions) = 2
     /\ Len(call.exc_val.exceptions) = 2
     /\ \E a \in 1..2 :
           LET x == call.exc_val.exceptions[a]
               y == call.exc_val.exceptions[3 - a]
               T1 == rg.expected_exceptions[1].name
               T2 == rg.expected_exceptions[2].name
           IN  /\ isinstance(x, T1) /\ ~isinstance(y, T1)
               /\ isinstance(y, T2) /\ ~isinstance(x, T2))
    => Returned(TRUE)

\* C5 happens: True with the instance of the second class first in the group.
C5_Witness ==
    /\ GroupCalled /\ PlainTypes(rg) /\ NoGroupChecks(rg)
    /\ Len(rg.expected_exceptions) = 2
    /\ Len(call.exc_val.exceptions) = 2
    /\ isinstance(call.exc_val.exceptions[2], rg.expected_exceptions[1].name)
    /\ ~isinstance(call.exc_val.exceptions[1], rg.expected_exceptions[1].name)
    /\ isinstance(call.exc_val.exceptions[1], rg.expected_exceptions[2].name)
    /\ ~isinstance(call.exc_val.exceptions[2], rg.expected_exceptions[2].name)
    /\ Returned(TRUE)

\* matches was called on a bare exception: not None, not a group
BareCalled == MatchesCalled /\ call.exc_val # NoException /\ ~IsGroup(call.exc_val)

\* C6: RaisesGroup(P, allow_unwrapped=True).matches(e) returns True for a
\* bare exception e if and only if RaisesGroup(P).matches(g) returns True
\* for the group g of the one exception e.
C6_UnwrappedIffWrapped ==
    (BareCalled /\ rg.allow_unwrapped) =>
        \A message \in GroupMessages :
            LET wrapped == RaisesGroup_matches(
                              Constructed(rg.expected_exceptions, FALSE, FALSE, None, "None"),
                              ExceptionGroup(message, <<call.exc_val>>))
            IN  /\ call.raised = "None" /\ wrapped.raised = "None"
                /\ call.ret <=> wrapped.ret

\* C6 happens: a bare exception accepted by a Matcher under allow_unwrapped.
C6_Witness ==
    /\ BareCalled /\ rg.allow_unwrapped
    /\ rg.expected_exceptions[1].kind = "Matcher"
    /\ Returned(TRUE)

\* C7: for a bare exception, matches returns False whenever more than one
\* expected exception is declared; with exactly one, P, it returns True if
\* and only if P accepts the exception and allow_unwrapped is set.
C7_BareException ==
    BareCalled =>
        /\ call.raised = "None"
        /\ Len(rg.expected_exceptions) > 1 => ~call.ret
        /\ Len(rg.expected_exceptions) = 1 =>
              (call.ret <=> (/\ Satisfies(rg.expected_exceptions[1], call.exc_val)
                             /\ rg.allow_unwrapped))

\* C7 happens: a bare exception that the one expected exception accepts is
\* refused because allow_unwrapped is not set.
C7_Witness ==
    /\ BareCalled /\ ~rg.allow_unwrapped
    /\ Len(rg.expected_exceptions) = 1
    /\ Satisfies(rg.expected_exceptions[1], call.exc_val)
    /\ Returned(FALSE)

RECURSIVE LeavesFrom(_, _)
\* the leaf exceptions under sub-exceptions k, k+1, ... of a group, depth
\* first and left to right
LeavesFrom(group, k) ==
    IF k > Len(group.exceptions) THEN <<>>
    ELSE (IF IsGroup(group.exceptions[k]) THEN LeavesFrom(group.exceptions[k], 1)
          ELSE <<group.exceptions[k]>>)
         \o LeavesFrom(group, k + 1)

\* RaisesGroup(ValueError, flatten_subgroups=True) against a group holding a
\* group holding one ValueError (lines 385-386)
FlattenExample ==
    /\ GroupCalled
    /\ rg.flatten_subgroups /\ NoGroupChecks(rg)
    /\ rg.expected_exceptions = <<TypeSpec("ValueError")>>
    /\ Len(call.exc_val.exceptions) = 1
    /\ IsGroup(call.exc_val.exceptions[1])
    /\ Len(call.exc_val.exceptions[1].exceptions) = 1
    /\ call.exc_val.exceptions[1].exceptions[1].type = "ValueError"

\* C8: with flatten_subgroups (and no match, no check) matches ends on a
\* nested group as it ends on the flat group of the nested group's leaf
\* exceptions, depth first and left to right; RaisesGroup(ValueError,
\* flatten_subgroups=True) returns True for a group holding a group holding
\* one ValueError.
C8_FlattenAsFlat ==
    /\ (GroupCalled /\ rg.flatten_subgroups /\ NoGroupChecks(rg)) =>
          LET flat == RaisesGroup_matches(
                          rg, ExceptionGroup(call.exc_val.message,
                                             LeavesFrom(call.exc_val, 1)))
          IN  call.ret = flat.ret /\ call.raised = flat.raised
    /\ FlattenExample => Returned(TRUE)

\* C8 happens: the example of lines 385-386.
C8_Witness == FlattenExample /\ Returned(TRUE)

\* C9: _unroll_exceptions returns a sequence without groups as it is, its
\* output holds no group, and applied to its output it returns that output.
C9_UnrollIdempotent ==
    GroupCalled =>
        LET exceptions == call.exc_val.exceptions
            unrolled == _unroll_exceptions(exceptions)
        IN  /\ (\A i \in 1..Len(exceptions) : ~IsGroup(exceptions[i]))
                  => unrolled = exceptions
            /\ \A i \in 1..Len(unrolled) : ~IsGroup(unrolled[i])
            /\ _unroll_exceptions(unrolled) = unrolled

\* C9 happens: matches unrolls a group that holds a group and a leaf.
C9_Witness ==
    /\ GroupCalled /\ rg.flatten_subgroups
    /\ Len(call.exc_val.exceptions) = 2
    /\ IsGroup(call.exc_val.exceptions[1])
    /\ ~IsGroup(call.exc_val.exceptions[2])
    /\ Len(_unroll_exceptions(call.exc_val.exceptions)) = 2

\* C10: after __exit__ of a scoped block, the handle that the block's
\* __enter__ returned is filled if and only if __exit__ returned True; when
\* __exit__ raised, the handle is still empty.
C10_FilledIffHandled ==
    call.op = "exit" =>
        (handles[call.handle] # None <=> (call.raised = "None" /\ call.ret))

\* C11: the handle of a scoped block is empty when __enter__ returns it and
\* stays empty until the block's __exit__; it is filled at most once, and
\* only by that __exit__, after matches returned True for the exception
\* passed to it, with exactly the (type, value, traceback) passed to it.
C11_FilledOnceAtExit ==
    [][/\ Len(handles') > Len(handles) => handles'[Len(handles')] = None
       /\ \A h \in 1..Len(handles) :
             handles'[h] # handles[h] =>
                 /\ handles[h] = None
                 /\ call'.op = "exit" /\ call'.raised = "None" /\ call'.ret
                 /\ h = call'.handle
                 /\ RaisesGroup_matches(rg, call'.exc_val).ret
                 /\ handles'[h] = <<ExcInfoOf(call'.exc_val)>>]_vars

\* __exit__ has just ended a block
Exited == call.op = "exit"

\* exc_val is an exception that this RaisesGroup accepts
Matches(self, exc_val) ==
    /\ exc_val # NoException
    /\ RaisesGroup_matches(self, exc_val).raised = "None"
    /\ RaisesGroup_matches(self, exc_val).ret

\* C12: __exit__ returns True only when the exception passed to it matches;
\* when there is no exception, or the exception does not match, __exit__
\* does not return but raises a new AssertionError, which for an exception
\* that does not match carries the fail_reason of matches.
C12_ExitTrueOnlyOnMatch ==
    Exited =>
        /\ (call.raised = "None" /\ call.ret) => Matches(rg, call.exc_val)
        /\ call.raised = "None" => call.ret
        /\ ~Matches(rg, call.exc_val) =>
              /\ call.raised = "AssertionError"
              /\ call.exc_val # NoException => fail_reason # None

\* the block that __exit__ has just ended raised an exception that does
\* not match
Mismatched == Exited /\ call.exc_val # NoException /\ ~Matches(rg, call.exc_val)

C14_MatchesNeverRaises ==
    MatchesCalled =>
        /\ call.raised = "None"
        /\ ~call.ret => fail_reason # None

\* matches was called on a group for which the pairing pass, run as the
\* object declares it (flattened or not), leaves an expected or an actual
\* exception unpaired
PairingFailed ==
    /\ GroupCalled
    /\ LET pass == Pairing(rg.expected_exceptions, ActualOf(rg, call.exc_val))
       IN  /\ pass.raised = "None"
           /\ ~AllMatched(pass.remaining_actual, pass.failed_expected)

\* C15: whenever the pairing pass fails, matches returns False, whatever the
\* passes that only serve the diagnostic (the second pass over the flattened
\* group, the exhaustive check, possible_match) find.
C15_VerdictFromGreedyOnly == PairingFailed => Returned(FALSE)

\* Matcher was just called with exception_type, match, check = call.args
MatcherCalled == call.op = "Matcher"

\* C16: Matcher called with exception_type, match and check all unset, or
\* with an exception_type that is not an exception class, raises and leaves
\* no object; so no Matcher whose matches is called has all three unset.
C16_MatcherNeedsAField ==
    /\ (/\ MatcherCalled
        /\ \/ call.args = <<"None", None, "None">>
           \/ call.args[1] \in {"int", "5"})
       => (call.raised \in {"ValueError", "TypeError"} /\ rg = None)
    /\ call.op = "Matcher.matches" =>
          ~(rg.exception_type = "None" /\ rg.match = None /\ rg.check = "None")

\* C16 happens: Matcher() raises ValueError.
C16_Witness ==
    /\ MatcherCalled
    /\ call.args = <<"None", None, "None">>
    /\ call.raised = "ValueError"
    /\ rg = None

\* RaisesGroup was just called with call.args: the expected exceptions,
\* allow_unwrapped, flatten_subgroups, match, check
RaisesGroupCalled == call.op = "RaisesGroup"

\* e is an exception class, a Matcher or a RaisesGroup
IsPattern(e) ==
    \/ e.kind \in {"Matcher", "RaisesGroup"}
    \/ e.kind = "type" /\ e.name \in TypeNames

\* C17: RaisesGroup raises ValueError exactly when it is given
\* allow_unwrapped with more than one expected exception, allow_unwrapped
\* with a RaisesGroup, allow_unwrapped with match or check,
\* flatten_subgroups with a RaisesGroup, or an argument that is no exception
\* class, Matcher or RaisesGroup; so every object constructed has one
\* expected exception, no RaisesGroup, no match and no check if
\* allow_unwrapped, and no RaisesGroup if flatten_subgroups.
C17_ConstructionErrors ==
    RaisesGroupCalled =>
        LET exceptions == call.args[1]
            allow_unwrapped == call.args[2]
            flatten_subgroups == call.args[3]
            nested == \E i \in 1..Len(exceptions) : exceptions[i].kind = "RaisesGroup"
        IN  /\ call.raised \in {"None", "ValueError"}
            /\ call.raised = "ValueError" <=>
                  \/ allow_unwrapped /\ Len(exceptions) > 1
                  \/ allow_unwrapped /\ nested
                  \/ allow_unwrapped /\ (call.args[4] # None \/ call.args[5] # "None")
                  \/ flatten_subgroups /\ nested
                  \/ \E i \in 1..Len(exceptions) : ~IsPattern(exceptions[i])
            /\ call.raised = "ValueError" => rg = None
            /\ call.raised = "None" =>
                  /\ rg.allow_unwrapped =>
                        /\ Len(rg.expected_exceptions) = 1
                        /\ rg.expected_exceptions[1].kind # "RaisesGroup"
                        /\ rg.match_expr = None /\ rg.check = "None"
                  /\ rg.flatten_subgroups =>
                        \A i \in 1..Len(rg.expected_exceptions) :
                            rg.expected_exceptions[i].kind # "RaisesGroup"

\* C17 happens: flatten_subgroups with a RaisesGroup among the expected
\* exceptions, and nothing else wrong, raises ValueError.
C17_Witness ==
    /\ RaisesGroupCalled
    /\ call.args[3] /\ ~call.args[2]
    /\ \E i \in 1..Len(call.args[1]) : call.args[1][i].kind = "RaisesGroup"
    /\ \A i \in 1..Len(call.args[1]) : IsPattern(call.args[1][i])
    /\ call.raised = "ValueError"

\* matches of the Matcher was just called on call.exc_val
MatcherMatched == call.op = "Matcher.matches"

\* the exception is an instance of the Matcher's exception_type, if set
TypeHolds(self, exception) ==
    self.exception_type # "None" => isinstance(exception, self.exception_type)

\* the Matcher's regex, if set, is found in the exception's text
TextHolds(self, exception) ==
    self.match # None => re_search(self.match[1], _stringify_exception(exception))

\* the Matcher's check, if set, returns True for the exception
CheckHolds(self, exception) ==
    self.check # "None" => CallCheck(self.check, exception)

\* C18: Matcher.matches returns True if and only if the exception satisfies
\* every field that is set (type, regex, check); the three are tried in
\* this order and the first that fails gives fail_reason; the check is
\* called only if it is set and the type and the regex passed.
C18_MatcherFirstFailure ==
    MatcherMatched =>
        LET e == call.exc_val
        IN  /\ call.ret <=> (TypeHolds(rg, e) /\ TextHolds(rg, e) /\ CheckHolds(rg, e))
            /\ call.ret => fail_reason = None
            /\ ~TypeHolds(rg, e) =>
                  fail_reason = _check_raw_type(rg.exception_type, e)
            /\ (TypeHolds(rg, e) /\ ~TextHolds(rg, e)) =>
                  fail_reason = _check_match(rg.match, e)
            /\ (TypeHolds(rg, e) /\ TextHolds(rg, e) /\ ~CheckHolds(rg, e)) =>
                  fail_reason = _check_check(rg.check, e, TRUE)
            /\ ~call.ret => fail_reason # None
            /\ call.invoked <=>
                  (rg.check # "None" /\ TypeHolds(rg, e) /\ TextHolds(rg, e))

\* C18 happens: the type passes, the regex and the check both fail, and
\* fail_reason is the one of the regex.
C18_Witness ==
    /\ MatcherMatched
    /\ rg.exception_type # "None" /\ rg.match # None /\ rg.check # "None"
    /\ TypeHolds(rg, call.exc_val)
    /\ ~TextHolds(rg, call.exc_val) /\ ~CheckHolds(rg, call.exc_val)
    /\ ~call.ret /\ ~call.invoked
    /\ fail_reason = _check_match(rg.match, call.exc_val)

\* the group's regex, if set, is found in the text of the raised group
GroupTextHolds ==
    rg.match_expr # None =>
        re_search(rg.match_expr[1], _stringify_exception(call.exc_val))

\* the pairing of the raised group's members with the expected exceptions
\* accounts for every one of them
PairingSucceeded ==
    LET pass == Pairing(rg.expected_exceptions, ActualOf(rg, call.exc_val))
    IN  /\ pass.raised = "None"
        /\ AllMatched(pass.remaining_actual, pass.failed_expected)

\* reason is how fail_reason starts
StartsWith(reason) ==
    /\ Len(fail_reason) >= Len(reason)
    /\ SubSeq(fail_reason, 1, Len(reason)) = reason

\* C19: matches on a group tests the group's regex first: when it fails the
\* call returns False with the regex's failure, whatever the pairing would
\* give; the group's check is called only if the regex passed and the
\* pairing succeeded; when it is called and returns False, matches returns
\* False and fail_reason is the failure of the check.
C19_TextThenPairingThenCheck ==
    GroupCalled =>
        /\ ~GroupTextHolds =>
              /\ Returned(FALSE)
              /\ StartsWith(_check_match(rg.match_expr, call.exc_val))
        /\ call.invoked <=>
              (rg.check # "None" /\ GroupTextHolds /\ PairingSucceeded)
        /\ (call.invoked /\ ~CallCheck(rg.check, call.exc_val)) =>
              /\ Returned(FALSE)
              /\ fail_reason = _check_check(rg.check, call.exc_val, rg._nested)
        /\ (call.invoked /\ CallCheck(rg.check, call.exc_val)) => Returned(TRUE)

\* C19 happens: the regex passes, the pairing succeeds, the check is called
\* and returns False.
C19_Witness ==
    /\ GroupCalled
    /\ rg.match_expr # None /\ GroupTextHolds /\ PairingSucceeded
    /\ call.invoked /\ ~CallCheck(rg.check, call.exc_val)
    /\ Returned(FALSE)
    /\ fail_reason = _check_check(rg.check, call.exc_val, rg._nested)

\* the regex fails on a group whose members the pairing cannot account for
C19_TextFirst ==
    /\ GroupCalled
    /\ ~GroupTextHolds /\ ~PairingSucceeded /\ rg.check # "None"
    /\ ~call.invoked

\* possible_match was just called on the table call.args
PossibleMatchCalled == call.op = "possible_match"

\* C20: possible_match on a completed table with as many rows as columns
\* returns True if and only if every row (actual exception) can be given a
\* column (expected pattern) of its own whose cell is None.
C20_PossibleMatchIffAssignment ==
    PossibleMatchCalled =>
        (call.ret <=>
            \E f \in Orderings(Len(call.args)) :
                \A row \in 1..Len(call.args) : IsMatch(call.args[row][f[row]]))

\* C20 happens: the first None of the first row is the only None of the
\* second row, and giving the first row its other None yields an assignment.
C20_Witness ==
    /\ PossibleMatchCalled
    /\ Len(call.args) = 2
    /\ IsMatch(call.args[1][1]) /\ IsMatch(call.args[1][2])
    /\ IsMatch(call.args[2][1]) /\ ~IsMatch(call.args[2][2])
    /\ call.ret

\* the token occurs in fail_reason
Mentions(token) ==
    fail_reason # None /\ \E k \in 1..Len(fail_reason) : fail_reason[k] = token

\* fail_reason ends with the tokens of tail
EndsWith(tail) ==
    /\ Len(fail_reason) >= Len(tail)
    /\ SubSeq(fail_reason, Len(fail_reason) - Len(tail) + 1, Len(fail_reason)) = tail

\* C21: whenever the pairing pass fails although the expected exceptions are
\* as many as the actual ones and some complete pairing exists, matches
\* returns False with a fail_reason that ends with the note about the greedy
\* algorithm; when no complete pairing exists (the counts differing
\* included) the note is not in fail_reason.
C21_GreedyNoteIffPossible ==
    (GroupCalled /\ GroupTextHolds) =>
        LET E == rg.expected_exceptions
            A == ActualOf(rg, call.exc_val)
        IN  /\ (PairingFailed /\ CompletePairingExists(E, A)) =>
                  /\ Returned(FALSE)
                  /\ EndsWith(<<"\n", GreedyNote>>)
            /\ ~CompletePairingExists(E, A) => ~Mentions(GreedyNote)

RECURSIVE Chain(_)
\* the sequences of parts, one after the other
Chain(parts) == IF parts = <<>> THEN <<>> ELSE Head(parts) \o Chain(Tail(parts))

\* the expected exception the pairing pass paired actual exception a with,
\* 0 for none
PairedWith(pass, a) ==
    IF \E e \in DOMAIN pass.matches : pass.matches[e] = a
    THEN CHOOSE e \in DOMAIN pass.matches : pass.matches[e] = a
    ELSE 0

\* the line of the report that tells that an expected exception accepts
\* actual exception a, paired with another expected exception
ItMatchesActual(E, A, pass, a) ==
    <<"\n", "    ", "It matches ", repr(A[a]), " which was paired with ",
      IF PairedWith(pass, a) = 0 THEN "nothing"
      ELSE _repr_expected(E[PairedWith(pass, a)])>>

\* the part of the report about failed expected exception i_failed: its
\* repr, then one line for each actual exception that it accepts
FailedPart(E, A, pass, i_failed) ==
    <<"\n", "  ", _repr_expected(E[i_failed])>>
    \o Chain([a \in 1..Len(A) |->
                 IF Satisfies(E[i_failed], A[a]) THEN ItMatchesActual(E, A, pass, a)
                 ELSE <<>>])

\* the report about all failed expected exceptions, in their order
FailedSection(E, A, pass) ==
    Chain([k \in 1..Len(pass.failed_expected) |->
              FailedPart(E, A, pass, pass.failed_expected[k])])

\* line is a whole line of fail_reason that starts at token k, not indented
\* (the report of a nested RaisesGroup is indented)
LineAt(line, k) ==
    /\ fail_reason # None
    /\ k \in 2..Len(fail_reason)
    /\ fail_reason[k] = line
    /\ fail_reason[k - 1] = "\n"

\* fail_reason holds section right after the line header, and the line
\* after it, if any, is not one more "It matches" line
SectionAfter(header, section) ==
    \E k \in 2..Len(fail_reason) :
        /\ LineAt(header, k)
        /\ Len(fail_reason) >= k + Len(section)
        /\ SubSeq(fail_reason, k + 1, k + Len(section)) = section
        /\ \/ Len(fail_reason) < k + Len(section) + 3
           \/ fail_reason[k + Len(section) + 3] # "It matches "

\* matches returned False with the report of lines 849-892 that lists
\* failed expected exceptions
FailedReported ==
    /\ GroupCalled /\ Returned(FALSE)
    /\ \E k \in 2..Len(fail_reason) : LineAt(FailedHeader, k)

\* C22: in the general-case report, each failed expected exception is
\* followed by one line for each of exactly those actual exceptions that it
\* would itself match, each line naming the expected exception that the
\* pairing pass paired that actual exception with.
C22_FailedAnnotatedWithOwnMatches ==
    FailedReported =>
        SectionAfter(FailedHeader,
                     FailedSection(rg.expected_exceptions,
                                   ActualOf(rg, call.exc_val),
                                   Pairing(rg.expected_exceptions,
                                           ActualOf(rg, call.exc_val))))

\* the reason the expected exception gives against the actual one, as a
\* part of the report: on lines of its own, indented
ReasonLines(expected, actual) ==
    LET Lines(res) ==
            (IF Head(res) # "\n" THEN <<"\n">> ELSE <<>>) \o indent(res, "    ")
    IN  Lines(_check_expected(expected, actual).res)

\* the line of the report that tells that expected exception e accepts the
\* actual exception, e being paired with another one
ItMatchesExpected(E, A, pass, e) ==
    <<"\n", "    ", "It matches ", _repr_expected(E[e]), " which was paired with ",
      IF pass.matches[e] = 0 THEN "nothing" ELSE repr(A[pass.matches[e]])>>

\* expected exception e found no match in the pairing pass
Failed(pass, e) ==
    \E k \in 1..Len(pass.failed_expected) : pass.failed_expected[k] = e

\* the part of the report about unmatched actual exception a: its repr,
\* then, for each expected exception in order, the reason it gives against
\* a if it is one of reasoned, or the line that it matches a
RemainingPart(E, A, pass, a, reasoned) ==
    <<"\n", "  ", repr(A[a]), ":">>
    \o Chain([e \in 1..Len(E) |->
                 IF Satisfies(E[e], A[a]) THEN ItMatchesExpected(E, A, pass, e)
                 ELSE IF e \in reasoned THEN ReasonLines(E[e], A[a])
                 ELSE <<>>])

\* the report about all unmatched actual exceptions, in their order
RemainingSection(E, A, pass, reasoned) ==
    Chain([k \in 1..Len(pass.remaining_actual) |->
              RemainingPart(E, A, pass, pass.remaining_actual[k], reasoned)])

\* what follows the report about the unmatched actual exceptions
ReportTails ==
    {<<>>, <<"\n", GreedyNote>>, <<"\n", FlattenHint>>,
     <<"\n", GreedyNote, "\n", FlattenHint>>}

\* fail_reason holds section right after the line header, and ends there
\* or with the notes that may follow the report
SectionEnds(header, section) ==
    \E k \in 2..Len(fail_reason) :
        /\ LineAt(header, k)
        /\ Len(fail_reason) >= k + Len(section)
        /\ SubSeq(fail_reason, k + 1, k + Len(section)) = section
        /\ SubSeq(fail_reason, k + Len(section) + 1, Len(fail_reason)) \in ReportTails

\* matches returned False with the report of lines 849-892 that lists
\* unmatched actual exceptions
RemainingReported ==
    /\ GroupCalled /\ Returned(FALSE)
    /\ \E k \in 2..Len(fail_reason) : LineAt(RemainingHeader, k)

\* C23 as stated: in the general-case report, each unmatched actual
\* exception is followed by the failure reason of every expected exception
\* that does not accept it.
C23_EveryReasonListed ==
    RemainingReported =>
        LET E == rg.expected_exceptions
            A == ActualOf(rg, call.exc_val)
        IN  SectionEnds(RemainingHeader,
                        RemainingSection(E, A, Pairing(E, A), 1..Len(E)))

\* C23: in the general-case report, each unmatched actual exception is
\* followed by the failure reason of every expected exception that found no
\* match in the pairing pass, and by no reason of an expected exception
\* that was paired.
C23_FailedReasonsListed ==
    RemainingReported =>
        LET E == rg.expected_exceptions
            A == ActualOf(rg, call.exc_val)
        IN  SectionEnds(RemainingHeader,
                        RemainingSection(E, A, Pairing(E, A),
                                         {e \in 1..Len(E) : Failed(Pairing(E, A), e)}))

\* C23 happens: the report names an unmatched actual exception that a
\* paired expected exception does not accept, and a failed one neither.
C23_Witness ==
    /\ RemainingReported
    /\ LET E == rg.expected_exceptions
           A == ActualOf(rg, call.exc_val)
       IN  \E k \in 1..Len(Pairing(E, A).remaining_actual) :
              \E e, f \in 1..Len(E) :
                  /\ ~Failed(Pairing(E, A), e) /\ Failed(Pairing(E, A), f)
                  /\ ~Satisfies(E[e], A[Pairing(E, A).remaining_actual[k]])
                  /\ ~Satisfies(E[f], A[Pairing(E, A).remaining_actual[k]])

\* the pairing pass paired every actual exception and left an expected
\* exception without a match
FewerRaised ==
    /\ GroupCalled /\ GroupTextHolds
    /\ LET pass == Pairing(rg.expected_exceptions, ActualOf(rg, call.exc_val))
       IN  /\ pass.raised = "None"
           /\ pass.remaining_actual = <<>>
           /\ pass.failed_expected # <<>>

\* fail_reason names the expected exception: in the list after TooFewFor,
\* or on a line of its own of the report
NamedAsFailed(expected) ==
    \E k \in 1..Len(fail_reason) :
        /\ fail_reason[k] = _repr_expected(expected)
        /\ \/ /\ \E j \in 1..(k - 1) : fail_reason[j] = TooFewFor
              /\ \E j \in (k + 1)..Len(fail_reason) : fail_reason[j] = "]"
           \/ /\ k > 2 /\ fail_reason[k - 1] = "  " /\ fail_reason[k - 2] = "\n"
              /\ \E j \in 2..(k - 2) : LineAt(FailedHeader, j)

\* C24: when an expected exception found no match and every actual
\* exception was paired, matches returns False and fail_reason says that
\* too few exceptions were raised and names every expected exception that
\* found no match.
C24_TooFewNamesFailed ==
    FewerRaised =>
        /\ Returned(FALSE)
        /\ Mentions(TooFewFor) \/ Mentions(TooFew)
        /\ \A k \in 1..Len(Pairing(rg.expected_exceptions,
                                    ActualOf(rg, call.exc_val)).failed_expected) :
              NamedAsFailed(rg.expected_exceptions[
                  Pairing(rg.expected_exceptions,
                          ActualOf(rg, call.exc_val)).failed_expected[k]])

\* the conditions of the second pass of lines 710-721, and that pass
\* pairing every expected exception with a leaf of the raised group
FlattenWouldMatch ==
    /\ ~rg.flatten_subgroups
    /\ ~\E i \in 1..Len(rg.expected_exceptions) :
          rg.expected_exceptions[i].kind = "RaisesGroup"
    /\ \E i \in 1..Len(call.exc_val.exceptions) : IsGroup(call.exc_val.exceptions[i])
    /\ LET pass == Pairing(rg.expected_exceptions,
                           _unroll_exceptions(call.exc_val.exceptions))
       IN  /\ pass.raised = "None"
           /\ AllMatched(pass.remaining_actual, pass.failed_expected)

\* the reason the first pass gives
FirstReason ==
    _check_exceptions(rg, call.exc_val, ActualOf(rg, call.exc_val), None).fail_reason

\* C25: when the pairing fails, flatten_subgroups is not set, no expected
\* exception is a RaisesGroup, an actual exception is a group and the
\* pairing against the flattened group succeeds, matches returns False and
\* fail_reason is the reason of the first pass followed by the hint to use
\* flatten_subgroups=True; in every other case where the pairing fails and
\* matches returns False, fail_reason is the reason of the first pass.
C25_FlattenHintIffSecondPassMatches ==
    (GroupTextHolds /\ PairingFailed) =>
        /\ FlattenWouldMatch =>
              /\ Returned(FALSE)
              /\ fail_reason = FirstReason \o <<"\n", FlattenHint>>
        /\ (~FlattenWouldMatch /\ Returned(FALSE)) => fail_reason = FirstReason

\* a run of _check_exceptions is under way
PairingRuns == call.op = "pairing"

\* the loops of _check_exceptions leave what the pairing pass and the
\* exhaustive check of the model of matches compute
RunAgrees ==
    (PairingRuns /\ call.phase = "done") =>
        LET E == rg.expected_exceptions
            A == call.exc_val.exceptions
            Same(pass) ==
                /\ call.remaining_actual = pass.remaining_actual
                /\ call.failed_expected = pass.failed_expected
                /\ call.matches = pass.matches
                /\ call.results =
                      IF AllMatched(pass.remaining_actual, pass.failed_expected)
                         \/ (Len(E) = 1 /\ Len(A) = 1)
                      THEN pass.results
                      ELSE ExhaustiveFill(E, A, Pairs(Range1(Len(E)), Range1(Len(A))),
                                          1, pass.results).results
        IN  Same(Pairing(E, A))

\* C26: within one pairing run a cell of the result table that is set is
\* never set again, overwritten or reset, and _check_expected is called at
\* most once for each pair of an expected and an actual exception, the
\* pairing pass and the exhaustive check taken together.
C26_TableOnlyGrows ==
    [][(PairingRuns /\ call'.op = "pairing") =>
          \A a \in 1..Len(call.exc_val.exceptions) :
              \A e \in 1..Len(rg.expected_exceptions) :
                  /\ call'.evals[a][e] <= 1
                  /\ has_result(call.results, e, a) =>
                        call'.results[a][e] = call.results[a][e]
                  /\ call'.results[a][e].checked <=> (call'.evals[a][e] = 1)]_vars

\* C26 happens: the exhaustive check has run over a table in which the
\* pairing pass had set some cells, and every pair was evaluated once.
C26_Witness ==
    /\ PairingRuns /\ call.phase = "done"
    /\ call.failed_expected # <<>>
    /\ Len(call.exc_val.exceptions) > 1
    /\ \A a \in 1..Len(call.exc_val.exceptions) :
          \A e \in 1..Len(rg.expected_exceptions) :
              call.results[a][e].checked /\ call.evals[a][e] = 1

\* C27: after matches returns True, of a RaisesGroup or of a Matcher,
\* fail_reason is None, whatever reason an earlier call on the same object
\* left.
C27_NoStaleReasonAfterTrue ==
    /\ (MatchesCalled /\ Returned(TRUE)) => fail_reason = None
    /\ (MatcherMatched /\ Returned(TRUE)) => fail_reason = None

\* C27 happens: matches of a RaisesGroup returns True when the call before
\* it had left a reason.
C27_Witness ==
    /\ MatchesCalled /\ Returned(TRUE)
    /\ call.stale # None
    /\ fail_reason = None

\* matches of a Matcher returns True when the call before it had left a
\* reason
C27_MatcherReused ==
    /\ MatcherMatched /\ Returned(TRUE)
    /\ call.stale # None
    /\ fail_reason = None

\* C28: when one RaisesGroup is used for several blocks, nested ones
\* included, every __exit__ whose exception matches returns True and fills
\* the handle that the __enter__ of its own block returned, and changes no
\* other handle.
C28_ExitFillsOwnHandle ==
    [][(call'.op = "exit" /\ Len(handles') = Len(handles)
        /\ Matches(rg, call'.exc_val)) =>
          /\ call'.raised = "None" /\ call'.ret
          /\ handles'[call'.handle] = <<ExcInfoOf(call'.exc_val)>>
          /\ \A h \in 1..Len(handles) :
                h # call'.handle => handles'[h] = handles[h]]_vars

\* the table after the exhaustive check of lines 816-822
FilledTable(E, A, pass) ==
    ExhaustiveFill(E, A, Pairs(Range1(Len(E)), Range1(Len(A))), 1, pass.results)

\* actual exception a is left unmatched by the pairing pass
Unmatched(pass, a) ==
    \E k \in 1..Len(pass.remaining_actual) : pass.remaining_actual[k] = a

\* what the assertions of _check_exceptions and of ResultHolder ask of the
\* state the pairing pass left
AssertionsHold(E, A, pass) ==
    IF Len(E) = 1 /\ Len(A) = 1
    \* line 810: assert not matches
    THEN \A e \in 1..Len(E) : pass.matches[e] = 0
    ELSE LET Asked(fill) ==
                 fill.raised = "None" =>
                     \A a \in 1..Len(A) : \A e \in 1..Len(E) :
                         \* lines 961, 967, 976, 984: no cell is NotChecked
                         /\ fill.results[a][e].checked
                         \* line 880: assert res is not None
                         /\ (Unmatched(pass, a) /\ Failed(pass, e)) =>
                               fill.results[a][e].res # None
                         \* line 886: matches[i_exp]
                         /\ (Unmatched(pass, a) /\ fill.results[a][e].res = None) =>
                               pass.matches[e] # 0
         IN  Asked(FilledTable(E, A, pass))

\* C29: no assertion of the pairing code fails: matches never raises
\* AssertionError, and when the pairing pass fails, no cell of the result
\* table is unset when it is read, no match is recorded in the case of one
\* expected and one actual exception, every cell of a failed expected
\* exception and an unmatched actual exception holds a failure string, and
\* every expected exception that accepts an unmatched actual exception has a
\* recorded match.
C29_NoAssertionFails ==
    GroupCalled =>
        /\ call.raised # "AssertionError"
        /\ (GroupTextHolds /\ PairingFailed) =>
              AssertionsHold(rg.expected_exceptions, ActualOf(rg, call.exc_val),
                             Pairing(rg.expected_exceptions,
                                     ActualOf(rg, call.exc_val)))

\* C29 happens: the report is written for an unmatched actual exception
\* that a failed expected exception rejects and a paired one accepts.
C29_Witness ==
    /\ RemainingReported /\ FailedReported
    /\ LET E == rg.expected_exceptions
           A == ActualOf(rg, call.exc_val)
       IN  \E a \in 1..Len(A) : \E e, f \in 1..Len(E) :
              /\ Unmatched(Pairing(E, A), a)
              /\ Failed(Pairing(E, A), f) /\ ~Satisfies(E[f], A[a])
              /\ Pairing(E, A).matches[e] # 0 /\ Satisfies(E[e], A[a])

====
